---------------------------- MODULE Spec2Model ----------------------------
(***************************************************************************)
(* A model of three parts of the satellite:                                *)
(*   - metabase DB.UpdateSegmentPieces, the compare-and-swap update of a   *)
(*     segment's remote pieces (satellite/metainfo/metabase/update.go);    *)
(*   - ProjectAccounting, the archiver and the readers of usage and of     *)
(*     bandwidth (satellite/satellitedb/projectaccounting.go);             *)
(*   - pgutil.CreateSchema (private/dbutil/pgutil/schema.go).              *)
(* Each part has its own specifications over the one tuple of variables.   *)
(***************************************************************************)
EXTENDS Integers, Sequences, FiniteSets, Bags, TLC

VARIABLES
    segments,   \* the segments table: (stream_id, position) -> remote_pieces column
    initial,    \* the segments table as it was before any call (history)
    call,       \* per caller: the position and locals of its UpdateSegmentPieces call
    impl,       \* db.db.impl, the dialect of the accounting database
    live,       \* bucket_bandwidth_rollups, a bag of rows
    archive,    \* bucket_bandwidth_rollup_archives, a bag of rows
    written,    \* every row ever put into either table (history), a bag
    ar,         \* the archiver: position and locals of ArchiveRollupsBefore
    prev,       \* the archiver's previous call, as it returned (history)
    tallies,    \* bucket_storage_tallies, a set of rows
    buckets,    \* bucket_metainfos, a set of rows
    usage,      \* the reader of usage: its last call and what it returned
    listing,    \* the bucket names a reader of consecutive pages was given (history)
    match,      \* a prefix, a name and what prefixIncrement and prefixMatch make of them
    daily,      \* project_bandwidth_daily_rollups, a set of rows
    schemas,    \* the schemas of the database CreateSchema talks to
    create      \* the position and locals of a CreateSchema call

vars == <<segments, initial, call, impl, live, archive, written, ar, prev,
          tallies, buckets, usage, listing, match, daily, schemas, create>>

segVars == <<segments, initial, call>>
archVars == <<impl, live, archive, written, ar, prev>>
usageVars == <<tallies, buckets, usage, listing, match, daily>>
schemaVars == <<schemas, create>>

(***************************************************************************)
(* Segments and pieces                                                     *)
(***************************************************************************)

\* The callers that may race on the segments table.
Callers == {"w1", "w2"}

\* A piece: its number and the node that holds it.
Piece(number, node) == [Number |-> number, StorageNode |-> node]

\* The Pieces values callers present: the empty list, two pieces in both
\* orders, and a different single piece.
PiecesInputs ==
    { <<>>,
      <<Piece(0, "n1"), Piece(1, "n2")>>,
      <<Piece(1, "n2"), Piece(0, "n1")>>,
      <<Piece(0, "n3")>> }

\* The value of the remote_pieces column for a Pieces value. The encoder is
\* not part of update.go; the comparison the statement makes is specified
\* as order-independent, so the column value is the set of the pieces.
EncodePieces(pieces) == { pieces[i] : i \in 1..Len(pieces) }

\* Pieces.Equal against a column value read back from the store.
PiecesEqual(pieces, column) ==
    /\ Len(pieces) = Cardinality(column)
    /\ EncodePieces(pieces) = column

ColumnValues == { EncodePieces(p) : p \in PiecesInputs }

ZeroStreamID == "zero"

\* (stream_id, position) pairs callers address: the zero stream, two
\* segments that exist, and a position of an existing stream with no segment.
ExistingKeys == { <<"s1", 0>>, <<"s2", 0>> }
AbsentKey == <<"s1", 1>>
TargetKeys == ExistingKeys \cup { AbsentKey, <<ZeroStreamID, 0>> }

\* What a statement's RETURNING gives: the row's column, or no row.
Row(column) == [found |-> TRUE, column |-> column]
NoRow == [found |-> FALSE, column |-> {}]

NoOpts == [StreamID |-> ZeroStreamID, Position |-> 0, OldPieces |-> <<>>, NewPieces |-> <<>>]

\* A caller that has not called yet. before is the row as it was immediately
\* before the call's statement (history); queries counts its statements.
IdleCall ==
    [ pc |-> "idle", opts |-> NoOpts, pieces |-> NoRow, err |-> "none",
      before |-> NoRow, queries |-> 0 ]

Options ==
    { [StreamID |-> k[1], Position |-> k[2], OldPieces |-> o, NewPieces |-> n] :
        k \in TargetKeys, o \in PiecesInputs, n \in PiecesInputs }

KeyOf(opts) == <<opts.StreamID, opts.Position>>

\* ValidateOpts without the NewPieces case.
ValidateOpts_NoNewPiecesCheck(opts) ==
    IF opts.StreamID = ZeroStreamID THEN "ErrInvalidRequest" ELSE "none"

\* update.go:30-35, the argument checks: the error returned before any
\* statement, or "none".
ValidateOpts(opts) ==
    IF opts.StreamID = ZeroStreamID THEN "ErrInvalidRequest"
    ELSE IF Len(opts.NewPieces) = 0 THEN "ErrInvalidRequest"
    ELSE "none"

\* The CASE without its WHEN: the column is overwritten whatever it holds.
CaseRemotePieces_Unconditional(column, opts) == EncodePieces(opts.NewPieces)

\* The CASE with the comparison inverted.
CaseRemotePieces_NeverMatches(column, opts) == column

\* update.go:40-43, the CASE of the UPDATE: the new column value of a row.
CaseRemotePieces(column, opts) ==
    IF column = EncodePieces(opts.OldPieces)
    THEN EncodePieces(opts.NewPieces)
    ELSE column

\* The statement as an upsert: a missing row is created.
UpdateStatement_Upsert(table, opts) ==
    [ k \in DOMAIN table \cup {KeyOf(opts)} |->
        IF k = KeyOf(opts) THEN EncodePieces(opts.NewPieces) ELSE table[k] ]

\* update.go:38-48, the UPDATE ... WHERE stream_id = $1 AND position = $2:
\* the table after the statement.
UpdateStatement(table, opts) ==
    [ k \in DOMAIN table |->
        IF k = KeyOf(opts) THEN CaseRemotePieces(table[k], opts) ELSE table[k] ]

\* update.go:47-48, RETURNING remote_pieces scanned into pieces: the row the
\* statement returns, or NoRow (sql.ErrNoRows).
Returning(table, opts) ==
    IF KeyOf(opts) \in DOMAIN table THEN Row(table[KeyOf(opts)]) ELSE NoRow

\* The call without the check of the returned pieces.
CheckReturned_NoCheck(opts, pieces) == "nil"

\* The call reports a change whatever came back.
CheckReturned_AlwaysChanged(opts, pieces) == "ErrValueChanged"

\* update.go:57-61, the check of the returned pieces against NewPieces.
CheckReturned(opts, pieces) ==
    IF ~PiecesEqual(opts.NewPieces, pieces.column) THEN "ErrValueChanged" ELSE "nil"

\* The accounting tables are empty and the archiver never runs under SegSpec.
ArchIdle ==
    /\ impl = "none"
    /\ live = EmptyBag
    /\ archive = EmptyBag
    /\ written = EmptyBag
    /\ ar = "none"
    /\ prev = "none"

\* The usage tables are left alone where no usage is read.
UsageIdle ==
    /\ tallies = {}
    /\ buckets = {}
    /\ usage = "none"
    /\ listing = "none"
    /\ match = "none"
    /\ daily = {}

\* No schema is created where CreateSchema is not called.
SchemaIdle ==
    /\ schemas = {}
    /\ create = "none"

SegInit ==
    /\ segments \in [ExistingKeys -> ColumnValues]
    /\ initial = segments
    /\ call = [c \in Callers |-> IdleCall]
    /\ ArchIdle
    /\ UsageIdle
    /\ SchemaIdle

\* update.go:27-35: a call whose arguments are rejected returns
\* ErrInvalidRequest and issues no statement.
CallInvalid(c) ==
    /\ call[c].pc = "idle"
    /\ \E opts \in Options :
        /\ ValidateOpts(opts) # "none"
        /\ call' = [call EXCEPT ![c] =
                [@ EXCEPT !.pc = "done", !.opts = opts, !.err = ValidateOpts(opts)]]
    /\ UNCHANGED <<segments, initial>>
    /\ UNCHANGED <<archVars, usageVars, schemaVars>>

\* update.go:27-48: a call with valid arguments issues the statement, which
\* the store executes atomically; the returned row is scanned into pieces.
CallQuery(c) ==
    /\ call[c].pc = "idle"
    /\ \E opts \in Options :
        /\ ValidateOpts(opts) = "none"
        /\ segments' = UpdateStatement(segments, opts)
        /\ call' = [call EXCEPT ![c] =
                [@ EXCEPT !.pc = "check", !.opts = opts,
                          !.before = Returning(segments, opts),
                          !.pieces = Returning(segments', opts),
                          !.queries = @ + 1]]
    /\ UNCHANGED initial
    /\ UNCHANGED <<archVars, usageVars, schemaVars>>

\* update.go:49-55 with a store failure: the statement has no effect and
\* the call returns the wrapped error.
CallQueryFails(c) ==
    /\ call[c].pc = "idle"
    /\ \E opts \in Options :
        /\ ValidateOpts(opts) = "none"
        /\ call' = [call EXCEPT ![c] =
                [@ EXCEPT !.pc = "done", !.opts = opts, !.err = "Error",
                          !.before = Returning(segments, opts),
                          !.queries = @ + 1]]
    /\ UNCHANGED <<segments, initial>>
    /\ UNCHANGED <<archVars, usageVars, schemaVars>>

\* update.go:49-53: no row came back.
ReturnNotFound(c) ==
    /\ call[c].pc = "check"
    /\ ~call[c].pieces.found
    /\ call' = [call EXCEPT ![c] = [@ EXCEPT !.pc = "done", !.err = "ErrObjectNotFound"]]
    /\ UNCHANGED <<segments, initial>>
    /\ UNCHANGED <<archVars, usageVars, schemaVars>>

\* update.go:57-61: a row came back; success iff it equals NewPieces.
ReturnChecked(c) ==
    /\ call[c].pc = "check"
    /\ call[c].pieces.found
    /\ call' = [call EXCEPT ![c] =
            [@ EXCEPT !.pc = "done", !.err = CheckReturned(call[c].opts, call[c].pieces)]]
    /\ UNCHANGED <<segments, initial>>
    /\ UNCHANGED <<archVars, usageVars, schemaVars>>

SegNext ==
    \E c \in Callers :
        \/ CallInvalid(c)
        \/ CallQuery(c)
        \/ CallQueryFails(c)
        \/ ReturnNotFound(c)
        \/ ReturnChecked(c)

SegSpec == SegInit /\ [][SegNext]_vars

(***************************************************************************)
(* Properties of UpdateSegmentPieces                                       *)
(***************************************************************************)

Done(c) == call[c].pc = "done"

\* The call of c issued its statement and the store executed it.
Executed(c) == call[c].queries = 1 /\ call[c].err # "Error" /\ call[c].pc # "idle"

\* c's statement found the row holding exactly the pieces of OldPieces.
Matched(c) ==
    /\ call[c].before.found
    /\ call[c].before.column = EncodePieces(call[c].opts.OldPieces)

\* This step is c's statement, executed by the store.
StatementStep(c) == call[c].pc = "idle" /\ call'[c].pc = "check"

\* Both callers raced on the existing segment k, each presenting as
\* OldPieces the set stored before the race, and a NewPieces different from it.
SameOldRace(k) ==
    \A c \in Callers :
        /\ Done(c) /\ Executed(c)
        /\ KeyOf(call[c].opts) = k
        /\ EncodePieces(call[c].opts.OldPieces) = initial[k]
        /\ EncodePieces(call[c].opts.NewPieces) # initial[k]

\* C1: when all callers race on one existing segment with the same OldPieces,
\* equal to the stored set, exactly one returns success, every other returns
\* ErrValueChanged, and the stored set is the successful call's NewPieces.
C1_ExactlyOneWinner ==
    \A k \in ExistingKeys :
        SameOldRace(k) =>
            \E w \in Callers :
                /\ call[w].err = "nil"
                /\ \A c \in Callers \ {w} : call[c].err = "ErrValueChanged"
                /\ segments[k] = EncodePieces(call[w].opts.NewPieces)

\* The stored set of k is its initial value or the NewPieces of a call whose
\* statement found its OldPieces stored.
StoredIsInitialOrWritten(k) ==
    \/ segments[k] = initial[k]
    \/ \E c \in Callers :
        /\ Executed(c) /\ Matched(c)
        /\ KeyOf(call[c].opts) = k
        /\ segments[k] = EncodePieces(call[c].opts.NewPieces)

\* A change of the stored set of k is the statement of one call that found its
\* OldPieces stored, and writes that call's whole NewPieces.
ChangeIsWholeSetByHolder(k) ==
    segments'[k] # segments[k] =>
        \E c \in Callers :
            /\ StatementStep(c)
            /\ KeyOf(call'[c].opts) = k
            /\ segments[k] = EncodePieces(call'[c].opts.OldPieces)
            /\ segments'[k] = EncodePieces(call'[c].opts.NewPieces)
            /\ \A j \in ExistingKeys \ {k} : segments'[j] = segments[j]

\* C2: in every state a segment's stored set is its initial value or the whole
\* NewPieces of a call whose OldPieces equalled the stored set immediately
\* before its statement; a call with a stale OldPieces never changes the
\* stored set, and no mixture of two sets is stored.
C2_WholeSetReplacement ==
    /\ [](\A k \in ExistingKeys : StoredIsInitialOrWritten(k))
    /\ [][\A k \in ExistingKeys : ChangeIsWholeSetByHolder(k)]_vars

\* A writer replaced the set while the other caller, stale, was refused.
C2_Witness ==
    \E c, d \in Callers :
        /\ Done(c) /\ Done(d) /\ c # d
        /\ KeyOf(call[c].opts) = KeyOf(call[d].opts)
        /\ Matched(c) /\ call[c].err = "nil"
        /\ segments[KeyOf(call[c].opts)] # initial[KeyOf(call[c].opts)]
        /\ Executed(d) /\ ~Matched(d) /\ call[d].err = "ErrValueChanged"

\* C3: on an existing segment whose stored set differs from OldPieces the call
\* returns ErrValueChanged, for every NewPieces, and the returned (stored)
\* set is the one found.
C3_StaleIsConflict ==
    \A c \in Callers :
        (Done(c) /\ Executed(c) /\ call[c].before.found /\ ~Matched(c)) =>
            /\ call[c].err = "ErrValueChanged"
            /\ call[c].pieces = call[c].before

\* The two callers raced on one existing segment with different OldPieces.
DifferentOldRace(c, d) ==
    /\ c # d
    /\ Done(c) /\ Executed(c) /\ Done(d) /\ Executed(d)
    /\ KeyOf(call[c].opts) = KeyOf(call[d].opts)
    /\ KeyOf(call[c].opts) \in ExistingKeys
    /\ EncodePieces(call[c].opts.OldPieces) # EncodePieces(call[d].opts.OldPieces)

\* C4 as stated: of two calls racing on one existing segment with different
\* OldPieces, exactly one returns success.
C4_ExactlyOneOfDifferentOld ==
    \A c, d \in Callers :
        DifferentOldRace(c, d) => (call[c].err = "nil") # (call[d].err = "nil")

\* At its statement c found stored its OldPieces or already its NewPieces.
FoundOldOrNew(c) ==
    \/ Matched(c)
    \/ call[c].before.column = EncodePieces(call[c].opts.NewPieces)

\* C4 amended: of two calls racing on one existing segment with different
\* OldPieces, each returns success exactly when its statement finds stored its
\* OldPieces or already its NewPieces, and ErrValueChanged otherwise; so
\* exactly one succeeds exactly when one of them finds that and the other not.
C4_SuccessIffFoundOldOrNew ==
    \A c, d \in Callers :
        DifferentOldRace(c, d) =>
            /\ call[c].err = (IF FoundOldOrNew(c) THEN "nil" ELSE "ErrValueChanged")
            /\ ((call[c].err = "nil") # (call[d].err = "nil"))
                    <=> (FoundOldOrNew(c) # FoundOldOrNew(d))

\* Two calls with different OldPieces, one of which won and one was refused.
C4_Witness ==
    \E c, d \in Callers :
        /\ DifferentOldRace(c, d)
        /\ call[c].err = "nil" /\ Matched(c)
        /\ call[d].err = "ErrValueChanged"

\* c's call addressed a (stream, position) with no segment.
OnAbsent(c) ==
    /\ ValidateOpts(call[c].opts) = "none"
    /\ KeyOf(call[c].opts) \notin ExistingKeys

\* C5: a call on a (stream, position) with no segment returns
\* ErrObjectNotFound, creates no segment and changes no other segment.
C5_AbsentIsNotFound ==
    /\ [](\A c \in Callers :
            (Done(c) /\ Executed(c) /\ OnAbsent(c)) => call[c].err = "ErrObjectNotFound")
    /\ [](DOMAIN segments = ExistingKeys)
    /\ [][\A c \in Callers :
            (StatementStep(c) /\ KeyOf(call'[c].opts) \notin ExistingKeys)
                => segments' = segments]_vars

\* A call on the absent segment returned, while a segment holds a new set.
C5_Witness ==
    \E c \in Callers :
        /\ Done(c) /\ Executed(c) /\ OnAbsent(c)
        /\ call[c].err = "ErrObjectNotFound"
        /\ segments # initial

\* The arguments have a zero StreamID or an empty NewPieces.
ZeroOrEmpty(opts) == opts.StreamID = ZeroStreamID \/ opts.NewPieces = <<>>

\* C6: a call with a zero StreamID or an empty NewPieces returns
\* ErrInvalidRequest without issuing a statement; the store is unchanged.
C6_InvalidRequest ==
    /\ [](\A c \in Callers :
            (call[c].pc # "idle" /\ ZeroOrEmpty(call[c].opts)) =>
                /\ Done(c)
                /\ call[c].err = "ErrInvalidRequest"
                /\ call[c].queries = 0)
    /\ [][\A c \in Callers :
            (call[c].pc = "idle" /\ call'[c].pc # "idle" /\ ZeroOrEmpty(call'[c].opts))
                => segments' = segments]_vars

\* Both kinds of invalid call happened, on a table another call has changed.
C6_Witness ==
    \E c, d \in Callers :
        /\ Done(c) /\ call[c].opts.StreamID = ZeroStreamID
        /\ call[c].opts.NewPieces # <<>>
        /\ call[c].err = "ErrInvalidRequest"
        /\ Done(d) /\ call[d].opts.StreamID # ZeroStreamID
        /\ call[d].opts.NewPieces = <<>>
        /\ KeyOf(call[d].opts) \in ExistingKeys
        /\ call[d].err = "ErrInvalidRequest"

\* OldPieces holds exactly the (node, number) pairs stored, in any order.
SamePairs(pieces, column) ==
    /\ \A i \in 1..Len(pieces) : pieces[i] \in column
    /\ \A x \in column : \E i \in 1..Len(pieces) : pieces[i] = x

\* C7: if the segment exists and its stored set holds exactly the pairs of
\* OldPieces, in any order, the call replaces it with NewPieces and succeeds.
C7_MatchReplaces ==
    /\ [](\A c \in Callers :
            (Done(c) /\ Executed(c) /\ call[c].before.found
                /\ SamePairs(call[c].opts.OldPieces, call[c].before.column)) =>
                    /\ call[c].err = "nil"
                    /\ call[c].pieces.column = EncodePieces(call[c].opts.NewPieces))
    /\ [][\A c \in Callers :
            (StatementStep(c) /\ KeyOf(call'[c].opts) \in ExistingKeys
                /\ SamePairs(call'[c].opts.OldPieces, segments[KeyOf(call'[c].opts)])) =>
                    segments'[KeyOf(call'[c].opts)] = EncodePieces(call'[c].opts.NewPieces)]_vars

\* Two successful replacements of the same stored pair of pieces, presented
\* in the two orders.
C7_Witness ==
    \E c, d \in Callers :
        /\ Done(c) /\ Done(d)
        /\ Matched(c) /\ Matched(d)
        /\ call[c].err = "nil" /\ call[d].err = "nil"
        /\ Len(call[c].opts.OldPieces) = 2
        /\ call[c].opts.OldPieces # call[d].opts.OldPieces
        /\ EncodePieces(call[c].opts.OldPieces) = EncodePieces(call[d].opts.OldPieces)
        /\ EncodePieces(call[c].opts.NewPieces) # EncodePieces(call[c].opts.OldPieces)

(***************************************************************************)
(* ArchiveRollupsBefore                                                    *)
(***************************************************************************)

\* Bounds: interval starts and cutoffs are 1..MaxTime, and a call's batchSize
\* is at most MaxBatch.
MaxTime == 2
MaxBatch == 2

\* The archiver is called, and called again.
Runs == {"first", "second"}

\* The piece actions the archiver ranges over (pb.PieceAction_name).
PieceActionName == {"PUT", "GET"}

Dialects == {"Cockroach", "Postgres", "Other"}

\* A row of bucket_bandwidth_rollups.
RollupRow(t, a) ==
    [ bucket_name |-> "b1", project_id |-> "p1", interval_start |-> t,
      interval_seconds |-> 3600, action |-> a,
      inline |-> 1, allocated |-> 2 * t, settled |-> t ]

RollupRows == { RollupRow(t, a) : t \in 1..MaxTime, a \in PieceActionName }

\* A row archived by an earlier job.
OldArchiveRow == RollupRow(0, "GET")

\* A row whose action column holds a value that is no key of
\* pb.PieceAction_name: the column is an integer, and the set of actions is
\* open to new members.
UnlistedRow == RollupRow(1, "UNLISTED")

\* The archive row without its settled column.
ArchiveColumns_DropSettled(r) == [r EXCEPT !.settled = 0]

\* projectaccounting.go:704-705 and 727-728, the columns copied into
\* bucket_bandwidth_rollup_archives.
ArchiveColumns(r) ==
    [ bucket_name |-> r.bucket_name, project_id |-> r.project_id,
      interval_start |-> r.interval_start, interval_seconds |-> r.interval_seconds,
      action |-> r.action, inline |-> r.inline, allocated |-> r.allocated,
      settled |-> r.settled ]

\* projectaccounting.go:700-701, WHERE interval_start <= $1.
RollupsBefore(table, before) ==
    { r \in BagToSet(table) : r.interval_start <= before }

\* The batch statement without its bound on interval_start.
RollupsBeforeByAction_AnyTime(table, action, before) ==
    { r \in BagToSet(table) : r.action = action }

\* projectaccounting.go:723-724, WHERE action = $1 AND interval_start <= $2.
RollupsBeforeByAction(table, action, before) ==
    { r \in BagToSet(table) : r.action = action /\ r.interval_start <= before }

Min(a, b) == IF a < b THEN a ELSE b

\* The batch statement without its LIMIT.
Batches_NoLimit(table, action, before, batchSize) ==
    { RollupsBeforeByAction(table, action, before) }

\* projectaccounting.go:725, LIMIT $3: the sets of rows one batch may delete.
Batches(table, action, before, batchSize) ==
    { S \in SUBSET RollupsBeforeByAction(table, action, before) :
        Cardinality(S) = Min(batchSize, Cardinality(RollupsBeforeByAction(table, action, before))) }

\* DELETE ... RETURNING * of the rows S.
DeleteRows(table, S) == table (-) SetToBag(S)

\* INSERT INTO bucket_bandwidth_rollup_archives ... SELECT ... FROM rollups_to_move.
InsertArchived(table, S) == table (+) SetToBag({ ArchiveColumns(r) : r \in S })

\* The guard that lets a negative batchSize through.
NoBatch_OnlyZero(batchSize) == batchSize = 0

\* projectaccounting.go:681, batchSize <= 0.
NoBatch(batchSize) == batchSize <= 0

\* The loop ends after the first batch, full or not.
LastBatch_Always(rowCount, batchSize) == TRUE

\* The loop ends with the first batch that moves no row.
LastBatch_Empty(rowCount, batchSize) == rowCount = 0

\* projectaccounting.go:738, the batch that ends an action's loop.
LastBatch(rowCount, batchSize) == rowCount < batchSize

\* The count of an action overwrites the total instead of adding to it.
AddCount_Overwrite(archivedCount, count) == count

\* projectaccounting.go:691, archivedCount += count.
AddCount(archivedCount, count) == archivedCount + count

\* What makes a statement fail: the store, or the cancellation of the call's
\* context. Error.Wrap keeps the cause inside the error it returns.
FailureCauses == {"store", "context canceled"}

\* The archiver between calls. startLive and startArchive are the tables as
\* the call found them, inserted the rows writers added since and rounds the
\* statements the loop of the current action has issued (history).
IdleArchiver ==
    [ pc |-> "idle", before |-> 0, batchSize |-> 0, todo |-> {}, action |-> "none",
      inner |-> 0, rounds |-> 0, archivedCount |-> 0, err |-> "none", cause |-> "none", runs |-> {},
      startLive |-> EmptyBag, startArchive |-> EmptyBag, inserted |-> EmptyBag ]

\* The previous call: its cutoff, whether batchSize was positive, the error
\* it returned and whether a writer inserted a row since it began.
NoPrev ==
    [ ran |-> FALSE, before |-> 0, batched |-> FALSE, err |-> "none", writes |-> FALSE ]

\* The segments table is left alone under ArchSpec.
SegIdle ==
    /\ segments = [k \in ExistingKeys |-> {}]
    /\ initial = segments
    /\ call = [c \in Callers |-> IdleCall]

ArchInit ==
    /\ impl \in Dialects
    /\ \E rows \in SUBSET (RollupRows \cup {UnlistedRow}) : live = SetToBag(rows)
    /\ archive = SetToBag({OldArchiveRow})
    /\ written = live (+) archive
    /\ ar = IdleArchiver
    /\ prev = NoPrev
    /\ SegIdle
    /\ UsageIdle
    /\ SchemaIdle

CanCall == ar.pc \in {"idle", "done"} /\ ar.runs # Runs

\* The record of a call that begins: the previous call is remembered.
Begin(before, batchSize) ==
    [ ar EXCEPT !.before = before, !.batchSize = batchSize, !.todo = {},
                !.action = "none", !.inner = 0, !.rounds = 0, !.archivedCount = 0,
                !.err = "none", !.cause = "none",
                !.runs = IF @ = {} THEN {"first"} ELSE Runs,
                !.startLive = live, !.startArchive = archive,
                !.inserted = EmptyBag ]

Remember ==
    prev' = [ ran |-> ar.runs # {}, before |-> ar.before, batched |-> ar.batchSize > 0,
              err |-> ar.err, writes |-> ar.inserted # EmptyBag ]

\* projectaccounting.go:681-683: batchSize <= 0 returns 0, nil.
ArchiveNoBatch ==
    /\ CanCall
    /\ \E before \in 1..MaxTime, batchSize \in -1..MaxBatch :
        /\ NoBatch(batchSize)
        /\ ar' = [Begin(before, batchSize) EXCEPT !.pc = "done", !.err = "nil"]
    /\ Remember
    /\ UNCHANGED <<impl, live, archive, written, segVars, usageVars, schemaVars>>

\* projectaccounting.go:711-712: any other dialect returns 0, nil.
ArchiveOtherDialect ==
    /\ CanCall
    /\ impl = "Other"
    /\ \E before \in 1..MaxTime, batchSize \in -1..MaxBatch :
        /\ ~NoBatch(batchSize)
        /\ ar' = [Begin(before, batchSize) EXCEPT !.pc = "done", !.err = "nil"]
    /\ Remember
    /\ UNCHANGED <<impl, live, archive, written, segVars, usageVars, schemaVars>>

\* projectaccounting.go:697-710: Postgres moves every row in one statement
\* and returns the count of the moved rows.
ArchivePostgres ==
    /\ CanCall
    /\ impl = "Postgres"
    /\ \E before \in 1..MaxTime, batchSize \in -1..MaxBatch :
        /\ ~NoBatch(batchSize)
        /\ live' = DeleteRows(live, RollupsBefore(live, before))
        /\ archive' = InsertArchived(archive, RollupsBefore(live, before))
        /\ ar' = [Begin(before, batchSize) EXCEPT
                    !.pc = "done", !.err = "nil",
                    !.archivedCount = Cardinality(RollupsBefore(live, before))]
    /\ Remember
    /\ UNCHANGED <<impl, written, segVars, usageVars, schemaVars>>

\* projectaccounting.go:709-710: the statement fails, nothing is moved and
\* archivedCount is still 0.
ArchivePostgresFails ==
    /\ CanCall
    /\ impl = "Postgres"
    /\ \E before \in 1..MaxTime, batchSize \in -1..MaxBatch, cause \in FailureCauses :
        /\ ~NoBatch(batchSize)
        /\ ar' = [Begin(before, batchSize) EXCEPT
                    !.pc = "done", !.err = "Error", !.cause = cause]
    /\ Remember
    /\ UNCHANGED <<impl, live, archive, written, segVars, usageVars, schemaVars>>

\* projectaccounting.go:685-689: Cockroach enters the loop over the actions.
ArchiveCockroach ==
    /\ CanCall
    /\ impl = "Cockroach"
    /\ \E before \in 1..MaxTime, batchSize \in -1..MaxBatch :
        /\ ~NoBatch(batchSize)
        /\ ar' = [Begin(before, batchSize) EXCEPT !.pc = "actions", !.todo = PieceActionName]
    /\ Remember
    /\ UNCHANGED <<impl, live, archive, written, segVars, usageVars, schemaVars>>

\* projectaccounting.go:689-690: the next action of the range over the map,
\* in any order; archiveRollupsBeforeByAction starts with a count of 0.
NextAction ==
    /\ ar.pc = "actions"
    /\ \E a \in ar.todo :
        ar' = [ar EXCEPT !.pc = "batch", !.action = a, !.todo = @ \ {a}, !.inner = 0,
                         !.rounds = 0]
    /\ UNCHANGED <<impl, live, archive, written, prev, segVars, usageVars, schemaVars>>

\* projectaccounting.go:696: every action is done.
ActionsDone ==
    /\ ar.pc = "actions"
    /\ ar.todo = {}
    /\ ar' = [ar EXCEPT !.pc = "done", !.err = "nil"]
    /\ UNCHANGED <<impl, live, archive, written, prev, segVars, usageVars, schemaVars>>

\* projectaccounting.go:719-741: one batch, an atomic delete-and-insert of at
\* most batchSize rows of the action; a short batch returns to the caller,
\* which adds the action's count (line 691).
ArchiveBatch ==
    /\ ar.pc = "batch"
    /\ \E S \in Batches(live, ar.action, ar.before, ar.batchSize) :
        /\ live' = DeleteRows(live, S)
        /\ archive' = InsertArchived(archive, S)
        /\ ar' = IF LastBatch(Cardinality(S), ar.batchSize)
                 THEN [ar EXCEPT !.pc = "actions", !.inner = 0, !.rounds = @ + 1,
                          !.archivedCount = AddCount(@, ar.inner + Cardinality(S))]
                 ELSE [ar EXCEPT !.inner = @ + Cardinality(S), !.rounds = @ + 1]
    /\ UNCHANGED <<impl, written, prev, segVars, usageVars, schemaVars>>

\* projectaccounting.go:733-735 and 691-694: the batch's statement fails and
\* moves nothing; the call returns the count so far with the error.
ArchiveBatchFails ==
    /\ ar.pc = "batch"
    /\ \E cause \in FailureCauses :
        ar' = [ar EXCEPT !.pc = "done", !.err = "Error", !.cause = cause, !.inner = 0,
                         !.rounds = @ + 1, !.archivedCount = AddCount(@, ar.inner)]
    /\ UNCHANGED <<impl, live, archive, written, prev, segVars, usageVars, schemaVars>>

\* A writer inserts the rollup row of the current interval, the latest, for
\* an action that has none yet.
InsertRollup ==
    /\ \E r \in { RollupRow(MaxTime, a) : a \in PieceActionName } :
        /\ ~BagIn(r, written)
        /\ live' = live (+) SetToBag({r})
        /\ written' = written (+) SetToBag({r})
        /\ ar' = [ar EXCEPT !.inserted = @ (+) SetToBag({r})]
    /\ UNCHANGED <<impl, archive, prev, segVars, usageVars, schemaVars>>

ArchNext ==
    \/ ArchiveNoBatch
    \/ ArchiveOtherDialect
    \/ ArchivePostgres
    \/ ArchivePostgresFails
    \/ ArchiveCockroach
    \/ NextAction
    \/ ActionsDone
    \/ ArchiveBatch
    \/ ArchiveBatchFails
    \/ InsertRollup

ArchSpec == ArchInit /\ [][ArchNext]_vars

(***************************************************************************)
(* Properties of ArchiveRollupsBefore                                      *)
(***************************************************************************)

\* The rows of the live table the cutoff of the current call covers.
Remaining == RollupsBefore(live, ar.before)

\* The rows this call has removed from the live table.
RemovedByCall == (ar.startLive (+) ar.inserted) (-) live

\* This step is a statement of the archiver that the store fails.
FailedStatementStep == ar.err # "Error" /\ ar'.err = "Error"

\* C8: in every state of ArchiveRollupsBefore the live rows together with the
\* archive rows are exactly the rows that were live or archived before plus
\* the rows written since: no row is lost, duplicated or altered, and a
\* statement that fails moves none of its rows.
C8_LosslessMove ==
    /\ [](live (+) archive = written)
    /\ [][FailedStatementStep => (live' = live /\ archive' = archive)]_vars

\* A call failed after it had moved rows, with covered rows left and a row
\* written meanwhile.
C8_Witness ==
    /\ ar.pc = "done" /\ ar.err = "Error"
    /\ RemovedByCall # EmptyBag
    /\ Remaining # {}
    /\ ar.inserted # EmptyBag

\* C9: the count ArchiveRollupsBefore returns is the number of rows the call
\* removed from the live table, with or without an error.
C9_CountIsRemoved ==
    ar.pc = "done" => ar.archivedCount = BagCardinality(RemovedByCall)

\* A call returned an error together with the count of two committed actions.
C9_Witness ==
    /\ ar.pc = "done" /\ ar.err = "Error"
    /\ ar.todo = {}
    /\ ar.archivedCount > 1
    /\ \A a \in PieceActionName : \E r \in BagToSet(archive) :
            r.action = a /\ r.interval_start > 0

\* The call is the second one, with the cutoff of the first, and no writer
\* has inserted a row since the first began.
SecondRunQuiet ==
    /\ ar.runs = Runs
    /\ prev.ran /\ prev.before = ar.before
    /\ ~prev.writes /\ ar.inserted = EmptyBag

\* The first call returned no error, with a positive batchSize.
FirstRunFull == prev.err = "nil" /\ prev.batched

\* The second call returned no error, in a dialect that archives.
SecondRunFull ==
    /\ ar.pc = "done" /\ ar.err = "nil"
    /\ ar.batchSize > 0 /\ impl # "Other"

\* The rows of a table that the statements of the dialect select for the
\* cutoff: Cockroach issues statements for the listed actions only.
Selected(table, before) ==
    IF impl = "Cockroach"
    THEN UNION { RollupsBeforeByAction(table, a, before) : a \in PieceActionName }
    ELSE RollupsBefore(table, before)

\* C10: a second call with the same cutoff and no writes in between processes
\* only the rows that remained: what it removes was live and covered when it
\* began and goes to the archive, a second call that completes leaves none of
\* the rows its statements select and counts them; after a full first run it
\* returns 0 and changes neither table.
C10_RetryProcessesRemainder ==
    SecondRunQuiet =>
        /\ BagToSet(RemovedByCall) \subseteq RollupsBefore(ar.startLive, ar.before)
        /\ archive = ar.startArchive (+) RemovedByCall
        /\ SecondRunFull =>
            /\ Selected(live, ar.before) = {}
            /\ ar.archivedCount = Cardinality(Selected(ar.startLive, ar.before))
        /\ FirstRunFull =>
            /\ live = ar.startLive
            /\ archive = ar.startArchive
            /\ ar.archivedCount = 0

\* The second call returned 0 after a first, batched call that moved rows.
C10_Witness ==
    /\ SecondRunQuiet /\ FirstRunFull /\ SecondRunFull
    /\ impl = "Cockroach"
    /\ BagCardinality(archive) > 2
    /\ ar.archivedCount = 0

\* The second call finished what a failed first call had begun.
C10_ResumeReached ==
    /\ SecondRunQuiet /\ prev.err = "Error" /\ SecondRunFull
    /\ BagCardinality(ar.startArchive) > 1
    /\ ar.archivedCount > 0

\* ---------------------------------------------------------------------------
\* The two strategies of ArchiveRollupsBefore, its frame and its early returns
\* ---------------------------------------------------------------------------

\* A call of a strategy that returned nil for a positive batchSize while no
\* writer ran.
StrategyCompleted ==
    /\ ar.pc = "done" /\ ar.err = "nil" /\ ar.batchSize > 0
    /\ impl \in {"Cockroach", "Postgres"}
    /\ ar.inserted = EmptyBag

\* C11: with batchSize > 0 and no concurrent writer both strategies end in the
\* same tables and return the same count, those of moving every row that was
\* live with interval_start <= before when the call began, whatever its action.
C11_StrategiesAgree ==
    StrategyCompleted =>
        /\ live = DeleteRows(ar.startLive, RollupsBefore(ar.startLive, ar.before))
        /\ archive = InsertArchived(ar.startArchive, RollupsBefore(ar.startLive, ar.before))
        /\ ar.archivedCount = Cardinality(RollupsBefore(ar.startLive, ar.before))

\* Both strategies end in the same tables and count for the rows whose action
\* is a key of pb.PieceAction_name.
StrategiesAgreeOnListed ==
    (StrategyCompleted /\ ~BagIn(UnlistedRow, ar.startLive)) =>
        /\ live = DeleteRows(ar.startLive, RollupsBefore(ar.startLive, ar.before))
        /\ archive = InsertArchived(ar.startArchive, RollupsBefore(ar.startLive, ar.before))
        /\ ar.archivedCount = Cardinality(RollupsBefore(ar.startLive, ar.before))

\* C12: no step of ArchiveRollupsBefore removes or changes a live row with
\* interval_start > before, a row written during the call included, and no
\* step removes or changes a row of the archive.
C12_FrameOfArchiver ==
    [][ /\ \A r \in BagToSet(live) :
            r.interval_start > ar'.before => CopiesIn(r, live') >= CopiesIn(r, live)
        /\ \A r \in BagToSet(archive) : CopiesIn(r, archive') >= CopiesIn(r, archive)
      ]_vars

\* A call moved rows and returned while a row written during the call, later
\* than the cutoff, is still live.
C12_Witness ==
    /\ ar.pc = "done" /\ ar.err = "nil"
    /\ RemovedByCall # EmptyBag
    /\ \E r \in BagToSet(ar.inserted) : r.interval_start > ar.before /\ BagIn(r, live)
    /\ BagIn(OldArchiveRow, archive)

\* C14: a call of ArchiveRollupsBefore that reports the cancellation of its
\* context has moved no row.
C14_CancelledMovesNothing ==
    (ar.pc = "done" /\ ar.cause = "context canceled") =>
        /\ RemovedByCall = EmptyBag
        /\ archive = ar.startArchive

\* A call has begun with this step.
CallBegins == ar'.runs # ar.runs

\* C15: a call with batchSize <= 0 returns count 0 and no error at once and
\* moves no row, in every dialect and for every cutoff and table contents.
C15_NoBatchIsNoOp ==
    /\ [][ (CallBegins /\ ar'.batchSize <= 0) =>
            /\ ar'.pc = "done" /\ ar'.err = "nil" /\ ar'.archivedCount = 0
            /\ live' = live /\ archive' = archive ]_vars
    /\ []( (ar.pc # "idle" /\ ar.batchSize <= 0) =>
            /\ ar.pc = "done" /\ ar.err = "nil" /\ ar.archivedCount = 0
            /\ RemovedByCall = EmptyBag /\ archive = ar.startArchive )

\* A call with a negative batchSize returned from a store that moves rows in
\* one statement, with covered rows live.
C15_Witness ==
    /\ ar.pc = "done" /\ ar.batchSize < 0 /\ impl = "Postgres"
    /\ ar.archivedCount = 0 /\ ar.err = "nil"
    /\ Remaining # {}

(***************************************************************************)
(* Two runs of ArchiveRollupsBefore at the same time                       *)
(***************************************************************************)

\* The jobs that run ArchiveRollupsBefore concurrently. Under RaceSpec ar maps
\* each job to the position and locals of its call.
Archivers == {"j1", "j2"}

\* A job that has been given the cutoff and its batchSize and has not run yet.
CalledArchiver(before, batchSize) ==
    [ pc |-> "called", before |-> before, batchSize |-> batchSize, todo |-> {},
      action |-> "none", inner |-> 0, archivedCount |-> 0, err |-> "none" ]

\* Both jobs are called with the same cutoff; the jobs are interchangeable, so
\* j1 is given the smaller batchSize.
RaceInit ==
    /\ impl \in {"Cockroach", "Postgres"}
    /\ \E rows \in SUBSET (RollupRows \cup {UnlistedRow}) : live = SetToBag(rows)
    /\ archive = SetToBag({OldArchiveRow})
    /\ written = live (+) archive
    /\ \E before \in 1..MaxTime, b1 \in 1..MaxBatch, b2 \in 1..MaxBatch :
        /\ b1 <= b2
        /\ ar = [j \in Archivers |->
                    CalledArchiver(before, IF j = "j1" THEN b1 ELSE b2)]
    /\ prev = NoPrev
    /\ SegIdle
    /\ UsageIdle
    /\ SchemaIdle

\* projectaccounting.go:697-710: the single statement of one job.
RacePostgres(j) ==
    /\ ar[j].pc = "called"
    /\ impl = "Postgres"
    /\ ~NoBatch(ar[j].batchSize)
    /\ live' = DeleteRows(live, RollupsBefore(live, ar[j].before))
    /\ archive' = InsertArchived(archive, RollupsBefore(live, ar[j].before))
    /\ ar' = [ar EXCEPT ![j].pc = "done", ![j].err = "nil",
                        ![j].archivedCount = Cardinality(RollupsBefore(live, ar[j].before))]
    /\ UNCHANGED <<impl, written, prev, segVars, usageVars, schemaVars>>

\* projectaccounting.go:709-710: the single statement of one job fails.
RacePostgresFails(j) ==
    /\ ar[j].pc = "called"
    /\ impl = "Postgres"
    /\ ~NoBatch(ar[j].batchSize)
    /\ ar' = [ar EXCEPT ![j].pc = "done", ![j].err = "Error"]
    /\ UNCHANGED <<impl, live, archive, written, prev, segVars, usageVars, schemaVars>>

\* projectaccounting.go:685-689: one job enters the loop over the actions.
RaceCockroach(j) ==
    /\ ar[j].pc = "called"
    /\ impl = "Cockroach"
    /\ ~NoBatch(ar[j].batchSize)
    /\ ar' = [ar EXCEPT ![j].pc = "actions", ![j].todo = PieceActionName]
    /\ UNCHANGED <<impl, live, archive, written, prev, segVars, usageVars, schemaVars>>

\* projectaccounting.go:689-690: the next action of one job's range.
RaceNextAction(j) ==
    /\ ar[j].pc = "actions"
    /\ \E a \in ar[j].todo :
        ar' = [ar EXCEPT ![j].pc = "batch", ![j].action = a,
                         ![j].todo = @ \ {a}, ![j].inner = 0]
    /\ UNCHANGED <<impl, live, archive, written, prev, segVars, usageVars, schemaVars>>

\* projectaccounting.go:696: one job has done every action.
RaceActionsDone(j) ==
    /\ ar[j].pc = "actions"
    /\ ar[j].todo = {}
    /\ ar' = [ar EXCEPT ![j].pc = "done", ![j].err = "nil"]
    /\ UNCHANGED <<impl, live, archive, written, prev, segVars, usageVars, schemaVars>>

\* projectaccounting.go:719-741: one batch of one job, an atomic statement
\* over the live table as the other job has left it.
RaceBatch(j) ==
    /\ ar[j].pc = "batch"
    /\ \E S \in Batches(live, ar[j].action, ar[j].before, ar[j].batchSize) :
        /\ live' = DeleteRows(live, S)
        /\ archive' = InsertArchived(archive, S)
        /\ ar' = IF LastBatch(Cardinality(S), ar[j].batchSize)
                 THEN [ar EXCEPT ![j].pc = "actions", ![j].inner = 0,
                          ![j].archivedCount = AddCount(@, ar[j].inner + Cardinality(S))]
                 ELSE [ar EXCEPT ![j].inner = @ + Cardinality(S)]
    /\ UNCHANGED <<impl, written, prev, segVars, usageVars, schemaVars>>

\* projectaccounting.go:733-735 and 691-694: a batch of one job fails.
RaceBatchFails(j) ==
    /\ ar[j].pc = "batch"
    /\ ar' = [ar EXCEPT ![j].pc = "done", ![j].err = "Error", ![j].inner = 0,
                        ![j].archivedCount = AddCount(@, ar[j].inner)]
    /\ UNCHANGED <<impl, live, archive, written, prev, segVars, usageVars, schemaVars>>

RaceNext ==
    \E j \in Archivers :
        \/ RacePostgres(j)
        \/ RacePostgresFails(j)
        \/ RaceCockroach(j)
        \/ RaceNextAction(j)
        \/ RaceActionsDone(j)
        \/ RaceBatch(j)
        \/ RaceBatchFails(j)

RaceSpec == RaceInit /\ [][RaceNext]_vars

\* The live table as the two jobs found it: no writer runs under RaceSpec.
RaceStartLive == written (-) SetToBag({OldArchiveRow})

\* The cutoff of the two jobs.
RaceBefore == ar["j1"].before

\* Both jobs have returned nil.
BothReturned == \A j \in Archivers : ar[j].pc = "done" /\ ar[j].err = "nil"

\* C13: when two runs of ArchiveRollupsBefore with the same cutoff have both
\* returned, every row that was live with interval_start <= before is in the
\* archive exactly once and no longer live, and in every state of every
\* interleaving no row is duplicated or lost.
C13_ExactlyOnce ==
    /\ live (+) archive = written
    /\ BothReturned =>
        \A r \in RollupsBefore(RaceStartLive, RaceBefore) :
            CopiesIn(ArchiveColumns(r), archive) = 1 /\ ~BagIn(r, live)

\* The same for the rows whose action is a key of pb.PieceAction_name.
ExactlyOnceOnListed ==
    /\ live (+) archive = written
    /\ BothReturned =>
        \A r \in RollupsBefore(RaceStartLive, RaceBefore) \ {UnlistedRow} :
            CopiesIn(ArchiveColumns(r), archive) = 1 /\ ~BagIn(r, live)

\* Both jobs returned after each had moved rows of the same action.
RaceInterleaved ==
    /\ BothReturned
    /\ \A j \in Archivers : ar[j].archivedCount > 0
    /\ Cardinality({ r.action : r \in RollupsBefore(RaceStartLive, RaceBefore) }) = 1

(***************************************************************************)
(* Usage of a project: GetProjectTotal and GetBucketUsageRollups           *)
(***************************************************************************)

\* Instants are counted in minutes; time.Duration.Hours is the number of
\* minutes over MinutesPerHour.
MinutesPerHour == 60

\* memory.Size.GB divides a number of bytes by this.
BytesPerGB == 1000000000

\* A quantity the code holds in a float64, as an exact fraction: a numerator
\* over the divisors the code has applied to it.
Frac(num, over) == [num |-> num, over |-> over]

Projects == {"p1", "p2"}

\* Bucket names are byte strings: a, b and c.
BucketA == <<97>>
BucketB == <<98>>
BucketC == <<99>>

\* bucket_metainfos: three buckets of one project, one without any tally, and
\* a bucket of another project.
BucketMetainfos ==
    { [project_id |-> "p1", name |-> BucketA], [project_id |-> "p1", name |-> BucketB],
      [project_id |-> "p1", name |-> BucketC], [project_id |-> "p2", name |-> BucketA] }

\* The cursor of a call that takes none.
NoCursor == [Search |-> <<>>, Limit |-> 0, Page |-> 0]

\* The instants the reader passes as since, on the hour and off it, and as
\* before.
SinceTimes == {0, 30, 90}
BeforeTimes == {60, 90, 120}

\* A row of bucket_storage_tallies. A row written before total_bytes existed
\* has its segments in remote_segments_count, a later one in
\* total_segments_count; the model gives each object one segment.
TallyRow(project, bucket, start, total, inline, remote, objects) ==
    [ project_id |-> project, bucket_name |-> bucket, interval_start |-> start,
      total_bytes |-> total, inline |-> inline, remote |-> remote,
      total_segments_count |-> IF total = 0 THEN 0 ELSE objects,
      inline_segments_count |-> 0,
      remote_segments_count |-> IF total = 0 THEN objects ELSE 0,
      object_count |-> objects ]

\* The tallies a store may hold: three of bucket a, the one at minute 30
\* written before total_bytes existed, two of bucket b, one of another
\* project.
TallyRows ==
    { TallyRow("p1", BucketA, 0, 5, 1, 1, 1),
      TallyRow("p1", BucketA, 30, 0, 2, 1, 2),
      TallyRow("p1", BucketA, 120, 11, 0, 0, 4),
      TallyRow("p1", BucketB, 60, 13, 0, 0, 5),
      TallyRow("p1", BucketB, 120, 17, 0, 0, 6),
      TallyRow("p2", BucketA, 60, 19, 0, 0, 7) }

\* A row of bucket_bandwidth_rollups.
BandwidthRow(project, bucket, start, action, inline, allocated, settled) ==
    [ bucket_name |-> bucket, project_id |-> project, interval_start |-> start,
      interval_seconds |-> 3600, action |-> action, inline |-> inline,
      allocated |-> allocated, settled |-> settled ]

\* The bandwidth rollups a store may hold.
BandwidthRows ==
    { BandwidthRow("p1", BucketA, 60, "GET", 4, 200, 3),
      BandwidthRow("p1", BucketB, 120, "GET", 8, 300, 5),
      BandwidthRow("p1", BucketA, 60, "PUT", 16, 400, 7),
      BandwidthRow("p1", BucketA, 60, "GET_AUDIT", 32, 500, 9),
      BandwidthRow("p2", BucketA, 60, "GET", 64, 600, 11) }

\* A rollup archived before the reader's calls.
ArchivedRow == BandwidthRow("p1", BucketA, 0, "GET", 1, 50, 2)

\* The instant is left as it is.
timeTruncateDown_Identity(t) == t

\* projectaccounting.go:773-775, the start of the hour of t: time.Date works
\* on the wall clock t shows in its location, which for a time in UTC is the
\* instant itself.
timeTruncateDown(t) == t - (t % MinutesPerHour)

\* The locations a caller's time may be in, as minutes east of UTC: UTC and a
\* location whose offset is not a whole number of hours.
Locations == {0, 30}

\* projectaccounting.go:270 and 773-775, the instant of timeTruncateDown(since)
\* for a since in a location: the wall clock of the location is truncated and
\* read back in the same location.
TruncatedSince(since, location) == timeTruncateDown(since + location) - location

\* The window without its upper end.
InWindow_HalfOpen(start, since, before) == start >= since /\ start < before

\* projectaccounting.go:288-289, 360-361, 385, 436-437 and 750-751:
\* interval_start >= ? AND interval_start <= ?.
InWindow(start, since, before) == start >= since /\ start <= before

\* projectaccounting.go:747-751, SELECT DISTINCT bucket_name of the project's
\* tallies in the window.
getBucketsSinceAndBefore(T, projectID, since, before) ==
    { r.bucket_name :
        r \in { x \in T : /\ x.project_id = projectID
                          /\ InWindow(x.interval_start, since, before) } }

\* The orders in which a query without ORDER BY, or the range over a map,
\* may yield the members of S.
Orders(S) ==
    { q \in [1..Cardinality(S) -> S] : \A x \in S : \E i \in DOMAIN q : q[i] = x }

\* projectaccounting.go:285-289, the tallies of one bucket in the window.
BucketTallies(T, projectID, bucket, since, before) ==
    { x \in T : /\ x.project_id = projectID
                /\ x.bucket_name = bucket
                /\ InWindow(x.interval_start, since, before) }

\* projectaccounting.go:290, ORDER BY interval_start DESC.
OrderByIntervalStartDesc(S) ==
    CHOOSE q \in Orders(S) :
        \A i, j \in DOMAIN q : i < j => q[i].interval_start > q[j].interval_start

\* projectaccounting.go:304-313, Scan of one row: TotalBytes falls back to
\* inline + remote when it is 0.
ScanTally(r) ==
    [ IntervalStart |-> r.interval_start,
      TotalBytes |-> IF r.total_bytes = 0 THEN r.inline + r.remote ELSE r.total_bytes,
      ObjectCount |-> r.object_count ]

\* projectaccounting.go:296-324, the slice of one bucket, most recent first.
storageTallies(T, projectID, bucket, since, before) ==
    [ i \in 1..Cardinality(BucketTallies(T, projectID, bucket, since, before)) |->
        ScanTally(OrderByIntervalStartDesc(
            BucketTallies(T, projectID, bucket, since, before))[i]) ]

\* accounting.BucketStorageTally.Bytes.
Bytes(tally) == tally.TotalBytes

\* The weight taken from the older sample to the newer one.
Hours_Reversed(newer, current) == current.IntervalStart - newer.IntervalStart

\* projectaccounting.go:338, tallies[i-1].IntervalStart.Sub(current.IntervalStart)
\* .Hours(), as the numerator over MinutesPerHour.
Hours(newer, current) == newer.IntervalStart - current.IntervalStart

\* The sample weighted is the newer one of the pair.
Current_Newer(tl, i) == tl[i - 1]

\* projectaccounting.go:337, current := tallies[i]; the slice is indexed
\* from 1 here.
Current(tl, i) == tl[i]

\* The sum is overwritten by each term.
Accumulate_Overwrite(sum, term) == term

\* projectaccounting.go:339-340, +=.
Accumulate(sum, term) == sum + term

\* projectaccounting.go:336-341, the loop over one bucket's slice from its
\* oldest tally down to the second most recent.
RECURSIVE TallyLoop(_, _, _)
TallyLoop(tl, i, acc) ==
    IF i > 1
    THEN TallyLoop(tl, i - 1,
            [ Storage |-> Accumulate(acc.Storage,
                            Bytes(Current(tl, i)) * Hours(tl[i - 1], Current(tl, i))),
              ObjectCount |-> Accumulate(acc.ObjectCount,
                            Current(tl, i).ObjectCount * Hours(tl[i - 1], Current(tl, i))) ])
    ELSE acc

\* projectaccounting.go:335, the range over bucketsTallies in the order the
\* map yields its keys.
RECURSIVE BucketsLoop(_, _, _, _, _, _, _)
BucketsLoop(T, projectID, since, before, order, k, acc) ==
    IF k > Len(order)
    THEN acc
    ELSE BucketsLoop(T, projectID, since, before, order, k + 1,
            TallyLoop(storageTallies(T, projectID, order[k], since, before),
                      Len(storageTallies(T, projectID, order[k], since, before)), acc))

RECURSIVE SumColumn(_, _)
SumColumn(rows, column) ==
    IF rows = {} THEN 0
    ELSE LET r == CHOOSE r \in rows : TRUE
         IN r[column] + SumColumn(rows \ {r}, column)

\* The rows summed whatever their action.
EgressRows_AnyAction(R, projectID, since, before) ==
    { r \in R : /\ r.project_id = projectID
                /\ InWindow(r.interval_start, since, before) }

\* projectaccounting.go:358-362, the rows of getTotalEgress.
EgressRows(R, projectID, since, before) ==
    { r \in R : /\ r.project_id = projectID
                /\ InWindow(r.interval_start, since, before)
                /\ r.action = "GET" }

\* projectaccounting.go:352-370, COALESCE(SUM(settled) + SUM(inline), 0).
getTotalEgress(R, projectID, since, before) ==
    IF EgressRows(R, projectID, since, before) = {}
    THEN 0
    ELSE SumColumn(EgressRows(R, projectID, since, before), "settled")
         + SumColumn(EgressRows(R, projectID, since, before), "inline")

\* projectaccounting.go:268-347, what GetProjectTotal returns from the tallies
\* T and the rollups R for a since in a location, when the map yields the
\* buckets in the given order.
ProjectTotalIn(T, R, projectID, since, location, before, order) ==
    [ Storage |->
        Frac(BucketsLoop(T, projectID, TruncatedSince(since, location), before, order, 1,
                         [Storage |-> 0, ObjectCount |-> 0]).Storage, <<MinutesPerHour>>),
      Egress |-> getTotalEgress(R, projectID, TruncatedSince(since, location), before),
      ObjectCount |->
        Frac(BucketsLoop(T, projectID, TruncatedSince(since, location), before, order, 1,
                         [Storage |-> 0, ObjectCount |-> 0]).ObjectCount, <<MinutesPerHour>>),
      Since |-> TruncatedSince(since, location),
      Before |-> before ]

\* GetProjectTotal for a since in UTC.
ProjectTotal(T, R, projectID, since, before, order) ==
    ProjectTotalIn(T, R, projectID, since, 0, before, order)

\* The reader before its first call, and after a write.
NoUsage ==
    [ op |-> "none", projectID |-> "none", cursor |-> NoCursor, since |-> 0,
      before |-> 0, result |-> {}, again |-> {} ]

\* No page was listed yet.
NoListing == [first |-> 0, names |-> <<>>]

\* No prefix was given yet.
NoMatch ==
    [ stage |-> "none", prefix |-> <<>>, origPrefix |-> <<>>, name |-> <<>>,
      incremented |-> <<>>, ok |-> FALSE, err |-> "nil", holds |-> FALSE ]

\* The reader makes a call, and then repeats it until the next write.
SameCall(op, projectID, cursor, since, before) ==
    /\ usage.op = op /\ usage.projectID = projectID /\ usage.cursor = cursor
    /\ usage.since = since /\ usage.before = before

CanRead(op, projectID, cursor, since, before) ==
    usage.op = "none" \/ SameCall(op, projectID, cursor, since, before)

\* The result of the call before this one, a call with the same arguments
\* and no write between the two (history).
Again(op, projectID, cursor, since, before) ==
    IF SameCall(op, projectID, cursor, since, before) THEN {usage.result} ELSE {}

UsageInit ==
    /\ impl = "Postgres"
    /\ \E rows \in SUBSET BandwidthRows : live = SetToBag(rows)
    /\ archive = SetToBag({ArchivedRow})
    /\ written = live (+) archive
    /\ ar = IdleArchiver
    /\ prev = NoPrev
    /\ tallies \in SUBSET TallyRows
    /\ buckets = BucketMetainfos
    /\ usage = NoUsage
    /\ listing = NoListing
    /\ match = NoMatch
    /\ daily = {}
    /\ SegIdle
    /\ SchemaIdle

\* projectaccounting.go:268-347: GetProjectTotal, a sequence of SELECTs.
GetProjectTotal ==
    /\ \E projectID \in Projects, since \in SinceTimes, before \in BeforeTimes :
        /\ CanRead("GetProjectTotal", projectID, NoCursor, since, before)
        /\ \E order \in Orders(getBucketsSinceAndBefore(
                            tallies, projectID, timeTruncateDown(since), before)) :
            usage' = [ op |-> "GetProjectTotal", projectID |-> projectID,
                       cursor |-> NoCursor, since |-> since, before |-> before,
                       result |-> ProjectTotal(tallies, BagToSet(live), projectID,
                                     since, before, order),
                       again |-> Again("GetProjectTotal", projectID, NoCursor, since, before) ]
    /\ UNCHANGED <<tallies, buckets, listing, match, daily, archVars, segVars, schemaVars>>

\* The rows of the bucket in the window, whatever their action.
ActionRows_AnyAction(R, projectID, bucket, since, before, action) ==
    { r \in R : /\ r.project_id = projectID
                /\ r.bucket_name = bucket
                /\ InWindow(r.interval_start, since, before) }

\* projectaccounting.go:383-386, SUM(settled), SUM(inline) of one bucket's
\* rollups of one action in the window; no row of the action, no group.
ActionRows(R, projectID, bucket, since, before, action) ==
    { r \in R : /\ r.project_id = projectID
                /\ r.bucket_name = bucket
                /\ InWindow(r.interval_start, since, before)
                /\ r.action = action }

\* projectaccounting.go:418-427, settled + inline of the action's group as
\* GB, 0 without a group.
ActionEgress(R, projectID, bucket, since, before, action) ==
    Frac(SumColumn(ActionRows(R, projectID, bucket, since, before, action), "settled")
         + SumColumn(ActionRows(R, projectID, bucket, since, before, action), "inline"),
         <<BytesPerGB>>)

\* The row of bucket_storage_tallies as the dbx query returns it.
DbxTally(r) ==
    [ IntervalStart |-> r.interval_start, TotalBytes |-> r.total_bytes,
      Inline |-> r.inline, Remote |-> r.remote,
      TotalSegmentsCount |-> r.total_segments_count,
      InlineSegmentsCount |-> r.inline_segments_count,
      RemoteSegmentsCount |-> r.remote_segments_count,
      ObjectCount |-> r.object_count ]

\* projectaccounting.go:389 and 433-437, the bucket's tallies in the window,
\* most recent first.
dbxStorageTallies(T, projectID, bucket, since, before) ==
    [ i \in 1..Cardinality(BucketTallies(T, projectID, bucket, since, before)) |->
        DbxTally(OrderByIntervalStartDesc(
            BucketTallies(T, projectID, bucket, since, before))[i]) ]

\* projectaccounting.go:451-455, the bytes of a tally in GetBucketUsageRollups.
StoredBytes(tally) ==
    IF tally.TotalBytes > 0 THEN tally.TotalBytes ELSE tally.Remote + tally.Inline

\* projectaccounting.go:457-461, the segments of a tally in
\* GetBucketUsageRollups.
StoredSegments(tally) ==
    IF tally.TotalSegmentsCount > 0
    THEN tally.TotalSegmentsCount
    ELSE tally.RemoteSegmentsCount + tally.InlineSegmentsCount

\* projectaccounting.go:446-463, the loop over the bucket's tallies.
RECURSIVE RollupLoop(_, _, _)
RollupLoop(tl, i, acc) ==
    IF i > 1
    THEN RollupLoop(tl, i - 1,
            [ TotalStoredData |-> Accumulate(acc.TotalStoredData,
                            StoredBytes(Current(tl, i)) * Hours(tl[i - 1], Current(tl, i))),
              TotalSegments |-> Accumulate(acc.TotalSegments,
                            StoredSegments(Current(tl, i)) * Hours(tl[i - 1], Current(tl, i))),
              ObjectCount |-> Accumulate(acc.ObjectCount,
                            Current(tl, i).ObjectCount * Hours(tl[i - 1], Current(tl, i))) ])
    ELSE acc

\* projectaccounting.go:392-465, the rollup of one bucket; since is already
\* truncated.
BucketUsageRollup(T, R, projectID, bucket, since, before) ==
    [ ProjectID |-> projectID, BucketName |-> bucket, Since |-> since, Before |-> before,
      GetEgress |-> ActionEgress(R, projectID, bucket, since, before, "GET"),
      AuditEgress |-> ActionEgress(R, projectID, bucket, since, before, "GET_AUDIT"),
      RepairEgress |-> ActionEgress(R, projectID, bucket, since, before, "GET_REPAIR"),
      TotalStoredData |->
        Frac(RollupLoop(dbxStorageTallies(T, projectID, bucket, since, before),
                        Len(dbxStorageTallies(T, projectID, bucket, since, before)),
                        [TotalStoredData |-> 0, TotalSegments |-> 0,
                         ObjectCount |-> 0]).TotalStoredData,
             <<BytesPerGB, MinutesPerHour>>),
      TotalSegments |->
        Frac(RollupLoop(dbxStorageTallies(T, projectID, bucket, since, before),
                        Len(dbxStorageTallies(T, projectID, bucket, since, before)),
                        [TotalStoredData |-> 0, TotalSegments |-> 0,
                         ObjectCount |-> 0]).TotalSegments,
             <<MinutesPerHour>>),
      ObjectCount |->
        Frac(RollupLoop(dbxStorageTallies(T, projectID, bucket, since, before),
                        Len(dbxStorageTallies(T, projectID, bucket, since, before)),
                        [TotalStoredData |-> 0, TotalSegments |-> 0,
                         ObjectCount |-> 0]).ObjectCount,
             <<MinutesPerHour>>) ]

\* projectaccounting.go:373-474, what GetBucketUsageRollups returns when the
\* bucket query yields the buckets in the given order. since.UTC() (375)
\* drops the location of since: the hour truncated is the hour of UTC.
BucketUsageRollups(T, R, projectID, since, before, order) ==
    [ k \in 1..Len(order) |->
        BucketUsageRollup(T, R, projectID, order[k], timeTruncateDown(since), before) ]

\* projectaccounting.go:373-474: GetBucketUsageRollups, a sequence of SELECTs.
GetBucketUsageRollups ==
    /\ \E projectID \in Projects, since \in SinceTimes, before \in BeforeTimes :
        /\ CanRead("GetBucketUsageRollups", projectID, NoCursor, since, before)
        /\ \E order \in Orders(getBucketsSinceAndBefore(
                            tallies, projectID, timeTruncateDown(since), before)) :
            usage' = [ op |-> "GetBucketUsageRollups", projectID |-> projectID,
                       cursor |-> NoCursor, since |-> since, before |-> before,
                       result |-> BucketUsageRollups(tallies, BagToSet(live), projectID,
                                     since, before, order),
                       again |-> Again("GetBucketUsageRollups", projectID, NoCursor, since, before) ]
    /\ UNCHANGED <<tallies, buckets, listing, match, daily, archVars, segVars, schemaVars>>

\* projectaccounting.go:492, the byte 0xff.
MaxByte == 255

\* projectaccounting.go:539-541, the largest number of buckets on a page.
MaxPageLimit == 50

\* The last byte is raised by one, 0xff to 0x00, and nothing is cut.
prefixIncrement_LastByte(origPrefix) ==
    [ incremented |-> [ k \in DOMAIN origPrefix |->
                          IF k = Len(origPrefix) THEN (origPrefix[k] + 1) % (MaxByte + 1)
                                                 ELSE origPrefix[k] ],
      ok |-> origPrefix # <<>>, origPrefix |-> origPrefix ]

\* The last byte that is not 0xff is raised by one and nothing is cut.
prefixIncrement_KeepTail(origPrefix) ==
    IF \A i \in DOMAIN origPrefix : origPrefix[i] = MaxByte
    THEN [incremented |-> <<>>, ok |-> FALSE, origPrefix |-> origPrefix]
    ELSE LET i == CHOOSE i \in DOMAIN origPrefix :
                    /\ origPrefix[i] # MaxByte
                    /\ \A j \in DOMAIN origPrefix : j > i => origPrefix[j] = MaxByte
         IN [ incremented |-> [ k \in DOMAIN origPrefix |->
                                  IF k = i THEN origPrefix[k] + 1 ELSE origPrefix[k] ],
              ok |-> TRUE, origPrefix |-> origPrefix ]

\* projectaccounting.go:490-497, the loop of prefixIncrement on the slice
\* `incremented`, from its last byte down (i is the index of the code plus
\* one): the first byte that is not 0xff is raised by one, as a byte, and the
\* slice is cut after it. `array` is the backing array as the loop leaves it.
RECURSIVE IncrementLoop(_, _)
IncrementLoop(incremented, i) ==
    IF i < 1
    THEN [incremented |-> <<>>, ok |-> FALSE, array |-> incremented]
    ELSE IF incremented[i] # MaxByte
    THEN LET raised == [incremented EXCEPT ![i] = (incremented[i] + 1) % (MaxByte + 1)]
         IN [incremented |-> SubSeq(raised, 1, i), ok |-> TRUE, array |-> raised]
    ELSE IncrementLoop(incremented, i - 1)

\* The loop runs on the caller's slice itself.
prefixIncrement_InPlace(origPrefix) ==
    [ incremented |-> IncrementLoop(origPrefix, Len(origPrefix)).incremented,
      ok |-> IncrementLoop(origPrefix, Len(origPrefix)).ok,
      origPrefix |-> IncrementLoop(origPrefix, Len(origPrefix)).array ]

\* projectaccounting.go:487-502, prefixIncrement: the loop runs on a copy of
\* origPrefix (488-489); origPrefix is the caller's slice after the call.
prefixIncrement(origPrefix) ==
    [ incremented |-> IncrementLoop(origPrefix, Len(origPrefix)).incremented,
      ok |-> IncrementLoop(origPrefix, Len(origPrefix)).ok,
      origPrefix |-> origPrefix ]

\* The order of the store on byte strings: x < y.
BytesLess(x, y) ==
    \E k \in 1..(Min(Len(x), Len(y)) + 1) :
        /\ \A j \in 1..(k - 1) : x[j] = y[j]
        /\ \/ k > Len(x) /\ k <= Len(y)
           \/ k <= Len(x) /\ k <= Len(y) /\ x[k] < y[k]

\* The condition has no upper end whatever the prefix.
prefixMatch_NoUpper(dialect, prefix) ==
    IF dialect \in {"Postgres", "Cockroach"}
    THEN [err |-> "nil", lower |-> prefix, bounded |-> FALSE, upper |-> <<>>]
    ELSE [ err |-> "unhandled database", lower |-> prefix, bounded |-> FALSE,
           upper |-> <<>> ]

\* projectaccounting.go:514-531, prefixMatch: the range condition on a name
\* and its second argument, or an error in an unhandled dialect.
prefixMatch(dialect, prefix) ==
    IF dialect \in {"Postgres", "Cockroach"}
    THEN [ err |-> "nil", lower |-> prefix,
           bounded |-> prefixIncrement(prefix).ok,
           upper |-> prefixIncrement(prefix).incremented ]
    ELSE [ err |-> "unhandled database", lower |-> prefix, bounded |-> FALSE,
           upper |-> <<>> ]

\* The condition prefixMatch returns: (name >= ?) or (name >= ? AND name < ?).
InNameRange(name, range) ==
    /\ ~BytesLess(name, range.lower)
    /\ range.bounded => BytesLess(name, range.upper)

\* projectaccounting.go:556-557 and 582-583, the names of the project's
\* buckets in the range.
MatchingNames(B, projectID, range) ==
    { b.name : b \in { x \in B : x.project_id = projectID /\ InNameRange(x.name, range) } }

\* projectaccounting.go:583, ORDER BY name ASC.
OrderByNameAsc(names) ==
    CHOOSE q \in Orders(names) : \A i, j \in DOMAIN q : i < j => BytesLess(q[i], q[j])

\* The oldest tally of the bucket in the window.
LatestTally_Oldest(T, projectID, bucket, since, before) ==
    IF BucketTallies(T, projectID, bucket, since, before) = {}
    THEN [IntervalStart |-> 0, TotalBytes |-> 0, ObjectCount |-> 0]
    ELSE ScanTally(OrderByIntervalStartDesc(
            BucketTallies(T, projectID, bucket, since, before))[
                Cardinality(BucketTallies(T, projectID, bucket, since, before))])

\* projectaccounting.go:617-621 and 645-658, the most recent tally of the
\* bucket in the window, zero without one.
LatestTally(T, projectID, bucket, since, before) ==
    IF BucketTallies(T, projectID, bucket, since, before) = {}
    THEN [IntervalStart |-> 0, TotalBytes |-> 0, ObjectCount |-> 0]
    ELSE ScanTally(OrderByIntervalStartDesc(
            BucketTallies(T, projectID, bucket, since, before))[1])

\* projectaccounting.go:625-664, the usage of one bucket of the page: the
\* sum of settled + inline over its GET rollups in the window, and the bytes
\* and the object count of its most recent tally there.
BucketUsage(T, R, projectID, bucket, since, before) ==
    [ ProjectID |-> projectID, BucketName |-> bucket, Since |-> since, Before |-> before,
      Egress |-> ActionEgress(R, projectID, bucket, since, before, "GET"),
      Storage |-> Frac(Bytes(LatestTally(T, projectID, bucket, since, before)),
                       <<BytesPerGB>>),
      ObjectCount |-> LatestTally(T, projectID, bucket, since, before).ObjectCount ]

\* The quotient alone.
PageCount_Floor(total, limit) == total \div limit

\* projectaccounting.go:667-670, the quotient of the count by the limit,
\* one more when the division leaves a remainder.
PageCount(total, limit) ==
    (total \div limit) + (IF total % limit # 0 THEN 1 ELSE 0)

\* projectaccounting.go:546-550, 581-611 and 623-674, the page of the buckets
\* from offset + 1 to offset + limit of the sorted names.
UsagePage(T, R, names, projectID, cursor, limit, since, before) ==
    [ err |-> "nil", Search |-> cursor.Search, Limit |-> limit,
      Offset |-> (cursor.Page - 1) * limit,
      TotalCount |-> Cardinality(names),
      PageCount |-> PageCount(Cardinality(names), limit),
      CurrentPage |-> cursor.Page,
      BucketUsages |->
        [ k \in 1..(Min(cursor.Page * limit, Cardinality(names))
                     - (cursor.Page - 1) * limit) |->
            BucketUsage(T, R, projectID,
                        OrderByNameAsc(names)[(cursor.Page - 1) * limit + k],
                        since, before) ] ]

\* projectaccounting.go:546-550 and 574-576, the page returned when no bucket
\* matches.
EmptyPage(cursor, limit) ==
    [ err |-> "nil", Search |-> cursor.Search, Limit |-> limit,
      Offset |-> (cursor.Page - 1) * limit, TotalCount |-> 0, PageCount |-> 0,
      CurrentPage |-> 0, BucketUsages |-> <<>> ]

\* The offset may be the count itself.
OutOfRange_PastCount(offset, total) == offset > total

\* projectaccounting.go:577-579, page.Offset > page.TotalCount-1.
OutOfRange(offset, total) == offset > total - 1

\* projectaccounting.go:546-674, GetBucketTotals from the range condition
\* on: the error of prefixMatch, the empty page, the page out of range, the
\* division by a limit of 0 at line 667, or the page.
BucketTotalsFrom(T, R, B, dialect, projectID, cursor, limit, since, before) ==
    IF prefixMatch(dialect, cursor.Search).err # "nil"
    THEN [err |-> prefixMatch(dialect, cursor.Search).err]
    ELSE IF MatchingNames(B, projectID, prefixMatch(dialect, cursor.Search)) = {}
    THEN EmptyPage(cursor, limit)
    ELSE IF OutOfRange((cursor.Page - 1) * limit,
                       Cardinality(MatchingNames(B, projectID,
                                        prefixMatch(dialect, cursor.Search))))
    THEN [err |-> "page is out of range"]
    ELSE IF limit = 0 THEN [err |-> "panic: integer divide by zero"]
    ELSE UsagePage(T, R, MatchingNames(B, projectID, prefixMatch(dialect, cursor.Search)),
                   projectID, cursor, limit, since, before)

\* The page number is looked at after the buckets are counted.
BucketTotalsCapped_CountFirst(T, R, B, dialect, projectID, cursor, limit, since, before) ==
    IF \/ cursor.Page # 0
       \/ prefixMatch(dialect, cursor.Search).err # "nil"
       \/ MatchingNames(B, projectID, prefixMatch(dialect, cursor.Search)) = {}
    THEN BucketTotalsFrom(T, R, B, dialect, projectID, cursor, limit, since, before)
    ELSE [err |-> "page can not be 0"]

\* projectaccounting.go:542-674, the body of GetBucketTotals after the cap of
\* the limit: page 0 is refused before anything is queried.
BucketTotalsCapped(T, R, B, dialect, projectID, cursor, limit, since, before) ==
    IF cursor.Page = 0 THEN [err |-> "page can not be 0"]
    ELSE BucketTotalsFrom(T, R, B, dialect, projectID, cursor, limit, since, before)

\* The limit as the caller gave it.
CappedLimit_Uncapped(cursor) == cursor.Limit

\* projectaccounting.go:539-541, the limit of the cursor, at most 50.
CappedLimit(cursor) ==
    IF cursor.Limit > MaxPageLimit THEN MaxPageLimit ELSE cursor.Limit

\* projectaccounting.go:534-675, what GetBucketTotals returns.
BucketTotals(T, R, B, dialect, projectID, cursor, since, before) ==
    BucketTotalsCapped(T, R, B, dialect, projectID, cursor, CappedLimit(cursor),
                       timeTruncateDown(since), before)

\* The cursors the reader passes: the two pages of a listing by two, page 0,
\* a page past the end, a search by a name with a limit above the cap, a
\* search that matches nothing and a limit of 0.
Cursors ==
    { [Search |-> <<>>, Limit |-> 2, Page |-> 1],
      [Search |-> <<>>, Limit |-> 2, Page |-> 2],
      [Search |-> <<>>, Limit |-> 1, Page |-> 0],
      [Search |-> <<>>, Limit |-> 2, Page |-> 3],
      [Search |-> BucketB, Limit |-> 51, Page |-> 1],
      [Search |-> <<122>>, Limit |-> 1, Page |-> 1],
      [Search |-> <<>>, Limit |-> 0, Page |-> 1] }

\* projectaccounting.go:534-675: GetBucketTotals, a sequence of SELECTs.
GetBucketTotals ==
    /\ \E projectID \in Projects, cursor \in Cursors,
          since \in SinceTimes, before \in BeforeTimes :
        /\ CanRead("GetBucketTotals", projectID, cursor, since, before)
        /\ usage' = [ op |-> "GetBucketTotals", projectID |-> projectID,
                      cursor |-> cursor, since |-> since, before |-> before,
                      result |-> BucketTotals(tallies, BagToSet(live), buckets, impl,
                                              projectID, cursor, since, before),
                      again |-> Again("GetBucketTotals", projectID, cursor, since, before) ]
    /\ UNCHANGED <<tallies, buckets, listing, match, daily, archVars, segVars, schemaVars>>

\* projectaccounting.go:115-140: CreateStorageTally inserts a tally with
\* inline and remote 0; the reader's history starts anew.
CreateStorageTally ==
    /\ \E r \in TallyRows :
        /\ r.inline = 0 /\ r.remote = 0
        /\ r \notin tallies
        /\ tallies' = tallies \cup {r}
    /\ usage' = NoUsage
    /\ UNCHANGED <<buckets, listing, match, daily, archVars, segVars, schemaVars>>

UsageNext ==
    \/ GetProjectTotal
    \/ GetBucketUsageRollups
    \/ CreateStorageTally

UsageSpec == UsageInit /\ [][UsageNext]_vars

\* More rollups of bucket a: a second GET rollup and a repair rollup.
MoreBandwidthRows ==
    { BandwidthRow("p1", BucketA, 120, "GET", 128, 700, 13),
      BandwidthRow("p1", BucketA, 60, "GET_REPAIR", 256, 800, 17) }

\* The three readers of usage over a store that holds every rollup, in every
\* dialect.
ReadInit ==
    /\ impl \in Dialects
    /\ live \in { SetToBag(BandwidthRows), SetToBag(BandwidthRows \cup MoreBandwidthRows) }
    /\ archive = SetToBag({ArchivedRow})
    /\ written = live (+) archive
    /\ ar = IdleArchiver
    /\ prev = NoPrev
    /\ tallies \in SUBSET TallyRows
    /\ buckets = BucketMetainfos
    /\ usage = NoUsage
    /\ listing = NoListing
    /\ match = NoMatch
    /\ daily = {}
    /\ SegIdle
    /\ SchemaIdle

ReadNext ==
    \/ GetProjectTotal
    \/ GetBucketUsageRollups
    \/ GetBucketTotals
    \/ CreateStorageTally

ReadSpec == ReadInit /\ [][ReadNext]_vars

(***************************************************************************)
(* prefixIncrement and prefixMatch on their own                            *)
(***************************************************************************)

\* The longest prefix and name tried.
MaxPrefixLen == 3

\* The bytes the prefixes and names are made of: the lowest two and the
\* highest two.
SomeBytes == {0, 1, MaxByte - 1, MaxByte}

\* The byte strings of at most MaxPrefixLen of these bytes.
ByteStrings == UNION { [1..n -> SomeBytes] : n \in 0..MaxPrefixLen }

\* A prefix is given in some dialect.
PrefixInit ==
    /\ impl \in Dialects
    /\ live = EmptyBag
    /\ archive = EmptyBag
    /\ written = EmptyBag
    /\ ar = IdleArchiver
    /\ prev = NoPrev
    /\ tallies = {}
    /\ buckets = {}
    /\ usage = NoUsage
    /\ listing = NoListing
    /\ \E prefix \in ByteStrings : match = [NoMatch EXCEPT !.stage = "given", !.prefix = prefix,
                                                         !.origPrefix = prefix]
    /\ daily = {}
    /\ SegIdle
    /\ SchemaIdle

\* projectaccounting.go:487-502: prefixIncrement is applied to the prefix.
CallPrefixIncrement ==
    /\ match.stage = "given"
    /\ match' = [ match EXCEPT !.stage = "incremented",
                               !.incremented = prefixIncrement(match.prefix).incremented,
                               !.ok = prefixIncrement(match.prefix).ok,
                               !.origPrefix = prefixIncrement(match.prefix).origPrefix ]
    /\ UNCHANGED <<tallies, buckets, usage, listing, daily, archVars, segVars, schemaVars>>

\* projectaccounting.go:514-531: prefixMatch builds the condition for the
\* prefix, and the store evaluates it on a name.
CallPrefixMatch ==
    /\ match.stage = "incremented"
    /\ \E name \in ByteStrings :
        match' = [ match EXCEPT
                    !.stage = "matched",
                    !.name = name,
                    !.err = prefixMatch(impl, match.prefix).err,
                    !.holds = /\ prefixMatch(impl, match.prefix).err = "nil"
                              /\ InNameRange(name, prefixMatch(impl, match.prefix)) ]
    /\ UNCHANGED <<tallies, buckets, usage, listing, daily, archVars, segVars, schemaVars>>

PrefixNext ==
    \/ CallPrefixIncrement
    \/ CallPrefixMatch

PrefixSpec == PrefixInit /\ [][PrefixNext]_vars

(***************************************************************************)
(* A listing of buckets, page after page                                   *)
(***************************************************************************)

\* The highest page number a listing starts at.
MaxPage == 4

\* The bucket names alpha and album.
BucketAlpha == <<97, 108, 112, 104, 97>>
BucketAlbum == <<97, 108, 98, 117, 109>>

\* The buckets bucket_metainfos may hold: alpha, album, a and b of one
\* project and alpha of another.
ListedBuckets ==
    { [project_id |-> "p1", name |-> BucketAlpha], [project_id |-> "p1", name |-> BucketAlbum],
      [project_id |-> "p1", name |-> BucketA], [project_id |-> "p1", name |-> BucketB],
      [project_id |-> "p2", name |-> BucketAlpha] }

\* The search prefixes: none, a, al, alp and z.
Searches == { <<>>, <<97>>, <<97, 108>>, <<97, 108, 112>>, <<122>> }

\* The limits asked for: none, one, two and one more than the cap.
Limits == {0, 1, 2, MaxPageLimit + 1}

\* The names of the buckets of a page, in its order.
PageNames(page) == [ k \in DOMAIN page.BucketUsages |-> page.BucketUsages[k].BucketName ]

\* The record of a call of GetBucketTotals over the whole time of the store.
TotalsCall(projectID, cursor) ==
    [ op |-> "GetBucketTotals", projectID |-> projectID, cursor |-> cursor,
      since |-> 0, before |-> 120,
      result |-> BucketTotals(tallies, BagToSet(live), buckets, impl, projectID,
                              cursor, 0, 120),
      again |-> {} ]

PageInit ==
    /\ impl \in Dialects
    /\ live = SetToBag(BandwidthRows)
    /\ archive = SetToBag({ArchivedRow})
    /\ written = live (+) archive
    /\ ar = IdleArchiver
    /\ prev = NoPrev
    /\ tallies = TallyRows
    /\ buckets \in SUBSET ListedBuckets
    /\ usage = NoUsage
    /\ listing = NoListing
    /\ match = NoMatch
    /\ daily = {}
    /\ SegIdle
    /\ SchemaIdle

\* projectaccounting.go:534-675: the first call of a reader, for any page.
ListBuckets ==
    /\ usage.op = "none"
    /\ \E projectID \in Projects, search \in Searches, limit \in Limits, page \in 0..MaxPage :
        /\ usage' = TotalsCall(projectID, [Search |-> search, Limit |-> limit, Page |-> page])
        /\ listing' = IF usage'.result.err = "nil"
                       THEN [first |-> page, names |-> PageNames(usage'.result)]
                       ELSE NoListing
    /\ UNCHANGED <<tallies, buckets, match, daily, archVars, segVars, schemaVars>>

\* projectaccounting.go:534-675: the reader asks for the page after the one
\* it was given, as long as there is one.
ListNextPage ==
    /\ usage.op = "GetBucketTotals"
    /\ usage.result.err = "nil"
    /\ usage.result.CurrentPage < usage.result.PageCount
    /\ usage' = TotalsCall(usage.projectID, [usage.cursor EXCEPT !.Page = @ + 1])
    /\ listing' = IF usage'.result.err = "nil"
                   THEN [listing EXCEPT !.names = @ \o PageNames(usage'.result)]
                   ELSE listing
    /\ UNCHANGED <<tallies, buckets, match, daily, archVars, segVars, schemaVars>>

PageNext ==
    \/ ListBuckets
    \/ ListNextPage

PageSpec == PageInit /\ [][PageNext]_vars

\* ---------------------------------------------------------------------------
\* What GetProjectTotal returns
\* ---------------------------------------------------------------------------

\* The sum of the values of a function.
RECURSIVE SumOf(_)
SumOf(f) ==
    IF DOMAIN f = {} THEN 0
    ELSE LET x == CHOOSE x \in DOMAIN f : TRUE
         IN f[x] + SumOf([y \in DOMAIN f \ {x} |-> f[y]])

\* The last call was GetProjectTotal; no row was written since.
ProjectTotalReturned == usage.op = "GetProjectTotal"

\* The tallies of one bucket of the call's project between the truncated
\* since and before, both included.
CallTallies(bucket) ==
    { x \in tallies : /\ x.project_id = usage.projectID
                      /\ x.bucket_name = bucket
                      /\ x.interval_start >= timeTruncateDown(usage.since)
                      /\ x.interval_start <= usage.before }

\* The buckets of the call's project that have a tally there.
CallBuckets == { x.bucket_name : x \in { y \in tallies : y \in CallTallies(y.bucket_name) } }

\* The bytes a tally stands for: total_bytes, or inline + remote where
\* total_bytes was never filled.
EffectiveBytes(x) == IF x.total_bytes # 0 THEN x.total_bytes ELSE x.inline + x.remote

\* The tallies of S later than x.
Later(S, x) == { y \in S : y.interval_start > x.interval_start }

\* The start of the tally that follows x in S.
NextStart(S, x) ==
    CHOOSE t \in { y.interval_start : y \in Later(S, x) } :
        \A y \in Later(S, x) : t <= y.interval_start

\* The minutes from x to the tally that follows it in S, 0 for the last.
MinutesToNext(S, x) ==
    IF Later(S, x) = {} THEN 0 ELSE NextStart(S, x) - x.interval_start

\* Byte-minutes and object-minutes of the call's window, bucket by bucket.
ByteMinutes ==
    SumOf([ b \in CallBuckets |->
        SumOf([ x \in CallTallies(b) |->
            EffectiveBytes(x) * MinutesToNext(CallTallies(b), x) ]) ])

ObjectMinutes ==
    SumOf([ b \in CallBuckets |->
        SumOf([ x \in CallTallies(b) |->
            x.object_count * MinutesToNext(CallTallies(b), x) ]) ])

\* The most recent tally of each bucket of the call.
MostRecent == { x \in tallies : x \in CallTallies(x.bucket_name)
                                /\ Later(CallTallies(x.bucket_name), x) = {} }

\* What the call returns from other tallies and rollups, in any order of the
\* buckets.
TotalsOn(T, R) ==
    { ProjectTotal(T, R, usage.projectID, usage.since, usage.before, order) :
        order \in Orders(getBucketsSinceAndBefore(
                    T, usage.projectID, timeTruncateDown(usage.since), usage.before)) }

\* C16: GetProjectTotal returns as Storage and ObjectCount the bytes and the
\* object count of every tally but the last of each bucket, weighted by the
\* hours to the next tally of the bucket and summed over the buckets; the
\* counts of a bucket's most recent tally do not change the result, and a
\* bucket with a single tally in the window adds nothing.
C16_IntervalWeighted ==
    ProjectTotalReturned =>
        /\ usage.result.Storage = Frac(ByteMinutes, <<MinutesPerHour>>)
        /\ usage.result.ObjectCount = Frac(ObjectMinutes, <<MinutesPerHour>>)
        /\ \A x \in MostRecent :
            \A other \in TotalsOn((tallies \ {x}) \cup
                            {[x EXCEPT !.total_bytes = 1000, !.object_count = 1000]},
                            BagToSet(live)) :
                /\ other.Storage = usage.result.Storage
                /\ other.ObjectCount = usage.result.ObjectCount
        /\ \A x \in MostRecent :
            CallTallies(x.bucket_name) = {x} =>
                \A other \in TotalsOn(tallies \ {x}, BagToSet(live)) :
                    /\ other.Storage = usage.result.Storage
                    /\ other.ObjectCount = usage.result.ObjectCount

\* GetProjectTotal returned a positive Storage for a window with three
\* tallies of one bucket and a single tally of another.
C16_Witness ==
    /\ ProjectTotalReturned
    /\ Cardinality(CallTallies(BucketA)) = 3
    /\ Cardinality(CallTallies(BucketB)) = 1
    /\ usage.result.Storage.num = 420
    /\ usage.result.ObjectCount.num = 210

\* The project's rollups of action GET between the truncated since and
\* before, both included.
CallGetRollups ==
    { r \in BagToSet(live) : /\ r.project_id = usage.projectID
                             /\ r.action = "GET"
                             /\ r.interval_start >= timeTruncateDown(usage.since)
                             /\ r.interval_start <= usage.before }

\* C17: the Egress GetProjectTotal returns is the sum of settled + inline over
\* exactly the project's GET rollups with interval start between the
\* hour-truncated since and before, both included: 0 without such a rollup,
\* and nothing of allocated, of other actions or of other projects.
C17_EgressIsGetSettledInline ==
    ProjectTotalReturned =>
        usage.result.Egress = SumOf([ r \in CallGetRollups |-> r.settled + r.inline ])

\* GetProjectTotal returned the egress of two GET rollups, one of them at
\* before, from a table that also holds a PUT rollup, an audit rollup and a
\* rollup of another project.
C17_Witness ==
    /\ ProjectTotalReturned
    /\ BagToSet(live) = BandwidthRows
    /\ Cardinality(CallGetRollups) = 2
    /\ \E r \in CallGetRollups : r.interval_start = usage.before
    /\ usage.result.Egress = 20

\* ---------------------------------------------------------------------------
\* The window of the usage queries
\* ---------------------------------------------------------------------------

\* The last call was GetBucketUsageRollups; no row was written since.
RollupsReturned == usage.op = "GetBucketUsageRollups"

\* The rows of a table whose interval start is not the call's before.
NotAtBefore(rows) == { x \in rows : x.interval_start # usage.before }

\* The rows of a table between the truncated since and before, both included.
InClosedWindow(rows) ==
    { x \in rows : /\ x.interval_start >= timeTruncateDown(usage.since)
                   /\ x.interval_start <= usage.before }

\* The totals GetBucketUsageRollups returns for one bucket from other tables.
BucketTotalsOn(T, R, bucket) ==
    BucketUsageRollup(T, R, usage.projectID, bucket,
                      timeTruncateDown(usage.since), usage.before)

\* C18: the window of GetProjectTotal and GetBucketUsageRollups is half-open,
\* [since, before): the tallies and rollups whose interval start is exactly
\* before change no returned total.
C18_HalfOpenWindow ==
    /\ ProjectTotalReturned =>
        usage.result \in TotalsOn(NotAtBefore(tallies), NotAtBefore(BagToSet(live)))
    /\ RollupsReturned =>
        \A k \in DOMAIN usage.result :
            usage.result[k] = BucketTotalsOn(NotAtBefore(tallies),
                                NotAtBefore(BagToSet(live)), usage.result[k].BucketName)

\* The tally of S that x follows.
Preceding(S, x) ==
    CHOOSE p \in S : /\ p.interval_start < x.interval_start
                     /\ \A y \in S : y.interval_start < x.interval_start
                                        => y.interval_start <= p.interval_start

\* The tallies at exactly before that follow another tally of their bucket
\* in the call's window.
ClosingTallies ==
    { x \in MostRecent : /\ x.interval_start = usage.before
                         /\ CallTallies(x.bucket_name) # {x} }

\* The rollups of the call's project at exactly before, inside the window.
RollupsAtBefore(action) ==
    { r \in InClosedWindow(BagToSet(live)) :
        /\ r.project_id = usage.projectID
        /\ r.action = action
        /\ r.interval_start = usage.before }

\* C18, amended: the window of GetProjectTotal and GetBucketUsageRollups is
\* closed, from the hour-truncated since to before with both ends included.
\* The rows outside it change no returned total; a GET rollup at exactly
\* before adds its settled + inline to the egress, and a tally at exactly
\* before ends the last weighted interval of its bucket, which adds the
\* bytes of the preceding tally times the time between the two.
C18_ClosedWindow ==
    /\ ProjectTotalReturned =>
        /\ usage.result \in TotalsOn(InClosedWindow(tallies), InClosedWindow(BagToSet(live)))
        /\ \A r \in RollupsAtBefore("GET") :
            \A without \in TotalsOn(tallies, BagToSet(live) \ {r}) :
                usage.result.Egress = without.Egress + r.settled + r.inline
        /\ \A x \in ClosingTallies :
            \A without \in TotalsOn(tallies \ {x}, BagToSet(live)) :
                usage.result.Storage.num = without.Storage.num
                    + EffectiveBytes(Preceding(CallTallies(x.bucket_name), x))
                      * (usage.before
                         - Preceding(CallTallies(x.bucket_name), x).interval_start)
    /\ RollupsReturned =>
        \A k \in DOMAIN usage.result :
            /\ usage.result[k] = BucketTotalsOn(InClosedWindow(tallies),
                                    InClosedWindow(BagToSet(live)), usage.result[k].BucketName)
            /\ \A r \in RollupsAtBefore("GET") :
                r.bucket_name = usage.result[k].BucketName =>
                    usage.result[k].GetEgress.num =
                        BucketTotalsOn(tallies, BagToSet(live) \ {r},
                                       r.bucket_name).GetEgress.num + r.settled + r.inline
            /\ \A x \in ClosingTallies :
                x.bucket_name = usage.result[k].BucketName =>
                    usage.result[k].TotalStoredData.num =
                        BucketTotalsOn(tallies \ {x}, BagToSet(live),
                                       x.bucket_name).TotalStoredData.num
                        + EffectiveBytes(Preceding(CallTallies(x.bucket_name), x))
                          * (usage.before
                             - Preceding(CallTallies(x.bucket_name), x).interval_start)

\* GetProjectTotal returned for a window that ends on a GET rollup and on a
\* tally that follows another of its bucket, with tallies of the project
\* outside the window.
C18_Witness ==
    /\ ProjectTotalReturned
    /\ RollupsAtBefore("GET") # {}
    /\ ClosingTallies # {}
    /\ \E x \in tallies : x.project_id = usage.projectID /\ x \notin InClosedWindow(tallies)
    /\ usage.result.Egress > 0

\* GetBucketUsageRollups returned for such a window.
C18_RollupsWitness ==
    /\ RollupsReturned
    /\ \E k \in DOMAIN usage.result :
        /\ usage.result[k].GetEgress.num > 0
        /\ usage.result[k].TotalStoredData.num > 0
        /\ \E r \in RollupsAtBefore("GET") : r.bucket_name = usage.result[k].BucketName
        /\ \E x \in ClosingTallies : x.bucket_name = usage.result[k].BucketName

\* ---------------------------------------------------------------------------
\* GetProjectTotal as a function of its window, and as a reader
\* ---------------------------------------------------------------------------

\* No byte, object or bandwidth count of the store is negative.
NonNegativeStore ==
    /\ \A x \in tallies :
        x.total_bytes >= 0 /\ x.inline >= 0 /\ x.remote >= 0 /\ x.object_count >= 0
    /\ \A r \in BagToSet(live) : r.settled >= 0 /\ r.inline >= 0 /\ r.allocated >= 0

\* What GetProjectTotal returns for the call's project and another window.
TotalsOfWindow(since, before) ==
    { ProjectTotal(tallies, BagToSet(live), usage.projectID, since, before, order) :
        order \in Orders(getBucketsSinceAndBefore(
                    tallies, usage.projectID, timeTruncateDown(since), before)) }

\* The windows that contain the window of the call.
WiderWindows ==
    { w \in SinceTimes \X BeforeTimes : w[1] <= usage.since /\ usage.before <= w[2] }

\* C19: over a store without negative counts, the Storage, ObjectCount and
\* Egress GetProjectTotal returns for a window that contains the window of
\* the call are each at least those the call returned.
C19_WiderWindowIsNoLess ==
    (ProjectTotalReturned /\ NonNegativeStore) =>
        \A w \in WiderWindows :
            \A wider \in TotalsOfWindow(w[1], w[2]) :
                /\ wider.Storage.num >= usage.result.Storage.num
                /\ wider.ObjectCount.num >= usage.result.ObjectCount.num
                /\ wider.Egress >= usage.result.Egress

\* GetProjectTotal returned positive totals for a window that a wider window
\* exceeds in Storage, ObjectCount and Egress.
C19_Witness ==
    /\ ProjectTotalReturned /\ NonNegativeStore
    /\ usage.result.Storage.num > 0 /\ usage.result.Egress > 0
    /\ \E w \in WiderWindows :
        \E wider \in TotalsOfWindow(w[1], w[2]) :
            /\ wider.Storage.num > usage.result.Storage.num
            /\ wider.ObjectCount.num > usage.result.ObjectCount.num
            /\ wider.Egress > usage.result.Egress

\* This step is a call of GetProjectTotal, GetBucketUsageRollups or
\* GetBucketTotals.
ReadStep == usage'.op \in {"GetProjectTotal", "GetBucketUsageRollups", "GetBucketTotals"}

\* C20: a call of GetProjectTotal that repeats the previous call with no
\* write between the two returns what the previous call returned, and a call
\* of GetProjectTotal, GetBucketUsageRollups or GetBucketTotals changes no
\* tally, rollup, archive or bucket row.
C20_RepeatableRead ==
    /\ []((ProjectTotalReturned /\ usage.again # {}) => usage.again = {usage.result})
    /\ [][ReadStep => /\ tallies' = tallies /\ live' = live
                       /\ archive' = archive /\ buckets' = buckets]_vars

\* GetProjectTotal was repeated over two buckets that both add to Storage.
C20_Witness ==
    /\ ProjectTotalReturned
    /\ usage.again = {usage.result}
    /\ Cardinality(CallTallies(BucketA)) > 1
    /\ Cardinality(CallTallies(BucketB)) > 1
    /\ usage.result.Egress > 0

\* ---------------------------------------------------------------------------
\* The lower end of the window of GetProjectTotal
\* ---------------------------------------------------------------------------

\* The start of the hour an instant lies in.
HourStart(t) ==
    CHOOSE h \in 0..t : h % MinutesPerHour = 0 /\ h <= t /\ t < h + MinutesPerHour

\* The rows of a table in the project of the call, from the start of the
\* hour of the call's since up to the call's before.
FromHourStart(rows) ==
    { x \in rows : /\ x.project_id = usage.projectID
                   /\ x.interval_start >= HourStart(usage.since)
                   /\ x.interval_start <= usage.before }

\* Those of them dated before the call's since.
BeforeSince(rows) == { x \in FromHourStart(rows) : x.interval_start < usage.since }

\* The tallies among them of the bucket of x.
HourTallies(x) == { y \in FromHourStart(tallies) : y.bucket_name = x.bucket_name }

\* C21: GetProjectTotal lowers since to the start of its hour before it
\* queries. The tallies and the GET rollups dated from that instant on, those
\* before the caller's since included, make up Storage, ObjectCount and
\* Egress; the result's Since is the start of the hour and its Before is the
\* caller's before.
C21_SinceLoweredToHour ==
    ProjectTotalReturned =>
        /\ usage.result.Since = HourStart(usage.since)
        /\ usage.result.Before = usage.before
        /\ usage.result.Egress =
            SumOf([ r \in { x \in FromHourStart(BagToSet(live)) : x.action = "GET" } |->
                        r.settled + r.inline ])
        /\ usage.result.Storage.num =
            SumOf([ x \in FromHourStart(tallies) |->
                        EffectiveBytes(x) * MinutesToNext(HourTallies(x), x) ])
        /\ usage.result.ObjectCount.num =
            SumOf([ x \in FromHourStart(tallies) |->
                        x.object_count * MinutesToNext(HourTallies(x), x) ])

\* GetProjectTotal returned for a since off the hour, with a GET rollup and a
\* weighted tally dated between the start of that hour and since.
C21_Witness ==
    /\ ProjectTotalReturned
    /\ usage.result.Since < usage.since
    /\ \E r \in BeforeSince(BagToSet(live)) : r.action = "GET" /\ r.settled + r.inline > 0
    /\ \E x \in BeforeSince(tallies) :
        EffectiveBytes(x) * MinutesToNext(HourTallies(x), x) > 0
    /\ usage.result.Egress > 0
    /\ usage.result.Storage.num > 0

\* ---------------------------------------------------------------------------
\* The egress figures of GetBucketUsageRollups
\* ---------------------------------------------------------------------------

\* The rollups of one bucket of the call's project and of one action, from
\* the start of the hour of since up to before.
BucketActionRollups(bucket, action) ==
    { r \in FromHourStart(BagToSet(live)) : r.bucket_name = bucket /\ r.action = action }

\* settled + inline over them, in bytes.
SettledAndInline(bucket, action) ==
    SumOf([ r \in BucketActionRollups(bucket, action) |-> r.settled + r.inline ])

\* C22: for each bucket GetBucketUsageRollups returns, GetEgress, AuditEgress
\* and RepairEgress are settled + inline summed over the bucket's rollups in
\* the window with action GET, GET_AUDIT and GET_REPAIR, as GB; the rollups of
\* other actions are in none of the three.
C22_EgressByAction ==
    RollupsReturned =>
        \A k \in DOMAIN usage.result :
            /\ usage.result[k].GetEgress =
                    Frac(SettledAndInline(usage.result[k].BucketName, "GET"), <<BytesPerGB>>)
            /\ usage.result[k].AuditEgress =
                    Frac(SettledAndInline(usage.result[k].BucketName, "GET_AUDIT"),
                         <<BytesPerGB>>)
            /\ usage.result[k].RepairEgress =
                    Frac(SettledAndInline(usage.result[k].BucketName, "GET_REPAIR"),
                         <<BytesPerGB>>)

\* GetBucketUsageRollups returned a bucket with two GET rollups, an audit
\* rollup, a repair rollup and a PUT rollup in the window.
C22_Witness ==
    /\ RollupsReturned
    /\ \E k \in DOMAIN usage.result :
        /\ Cardinality(BucketActionRollups(usage.result[k].BucketName, "GET")) = 2
        /\ usage.result[k].GetEgress.num = 148
        /\ usage.result[k].AuditEgress.num = 41
        /\ usage.result[k].RepairEgress.num = 273
        /\ SettledAndInline(usage.result[k].BucketName, "PUT") > 0

\* ---------------------------------------------------------------------------
\* The entries of a page of GetBucketTotals
\* ---------------------------------------------------------------------------

\* The last call was GetBucketTotals and it returned a page.
PageReturned == usage.op = "GetBucketTotals" /\ usage.result.err = "nil"

\* The tallies of one bucket of the call's project in the window.
WindowTallies(bucket) == { x \in FromHourStart(tallies) : x.bucket_name = bucket }

\* The most recent rows of a set of rows.
Latest(rows) == { x \in rows : \A y \in rows : y.interval_start <= x.interval_start }

\* The bytes and the object count of the most recent tally of the bucket in
\* the window, 0 without a tally.
LatestBytes(bucket) == SumOf([ x \in Latest(WindowTallies(bucket)) |-> EffectiveBytes(x) ])
LatestObjects(bucket) == SumOf([ x \in Latest(WindowTallies(bucket)) |-> x.object_count ])

\* C23: each entry of a page of GetBucketTotals takes Storage and ObjectCount
\* from the single most recent tally of its bucket in the window and Egress
\* from the single most recent GET rollup of its bucket in the window; older
\* tallies and older rollups are not in the entry.
C23_MostRecentOnly ==
    PageReturned =>
        \A k \in DOMAIN usage.result.BucketUsages :
            LET entry == usage.result.BucketUsages[k]
            IN /\ entry.Storage = Frac(LatestBytes(entry.BucketName), <<BytesPerGB>>)
               /\ entry.ObjectCount = LatestObjects(entry.BucketName)
               /\ entry.Egress =
                    Frac(SumOf([ r \in Latest(BucketActionRollups(entry.BucketName, "GET")) |->
                                    r.settled + r.inline ]), <<BytesPerGB>>)

\* C23, amended: each entry of a page of GetBucketTotals takes Storage and
\* ObjectCount from the single most recent tally of its bucket in the window,
\* and older tallies are not in the entry; its Egress is the sum of settled +
\* inline over every GET rollup of the bucket in the window.
C23_LatestTallySummedEgress ==
    PageReturned =>
        \A k \in DOMAIN usage.result.BucketUsages :
            LET entry == usage.result.BucketUsages[k]
            IN /\ entry.Storage = Frac(LatestBytes(entry.BucketName), <<BytesPerGB>>)
               /\ entry.ObjectCount = LatestObjects(entry.BucketName)
               /\ entry.Egress =
                    Frac(SettledAndInline(entry.BucketName, "GET"), <<BytesPerGB>>)

\* A page holds a bucket with three tallies and two GET rollups in the window.
C23_Witness ==
    /\ PageReturned
    /\ \E k \in DOMAIN usage.result.BucketUsages :
        LET entry == usage.result.BucketUsages[k]
        IN /\ Cardinality(WindowTallies(entry.BucketName)) = 3
           /\ Cardinality(BucketActionRollups(entry.BucketName, "GET")) = 2
           /\ entry.Storage.num = 11

\* ---------------------------------------------------------------------------
\* The range of a prefix
\* ---------------------------------------------------------------------------

\* s starts with p.
HasPrefix(s, p) == Len(s) >= Len(p) /\ SubSeq(s, 1, Len(p)) = p

\* x comes before y in the lexicographic order of byte strings.
LexLess(x, y) ==
    \/ Len(x) < Len(y) /\ HasPrefix(y, x)
    \/ \E k \in 1..Len(x) :
        /\ k <= Len(y)
        /\ SubSeq(x, 1, k - 1) = SubSeq(y, 1, k - 1)
        /\ x[k] < y[k]

\* The prefix has a byte that is not 0xff.
HasBound(p) == \E i \in DOMAIN p : p[i] # MaxByte

\* prefixIncrement was applied to the prefix, and nothing else yet.
Incremented == match.stage = "incremented"

\* C24: for a prefix that is not empty and not all 0xff, prefixIncrement is
\* ok and what it returns is greater than the prefix, does not start with
\* the prefix, and is greater than every byte string that starts with the
\* prefix.
C24_IncrementIsUpperBound ==
    (Incremented /\ HasBound(match.prefix)) =>
        /\ match.ok
        /\ LexLess(match.prefix, match.incremented)
        /\ ~HasPrefix(match.incremented, match.prefix)
        /\ \A s \in ByteStrings :
            HasPrefix(s, match.prefix) => LexLess(s, match.incremented)

\* prefixIncrement was applied to a prefix that ends in 0xff after a lower
\* byte, and returned a shorter string.
C24_Witness ==
    /\ Incremented
    /\ HasBound(match.prefix)
    /\ Len(match.prefix) < MaxPrefixLen
    /\ match.prefix[Len(match.prefix)] = MaxByte
    /\ Len(match.incremented) < Len(match.prefix)
    /\ \E s \in ByteStrings : s # match.prefix /\ HasPrefix(s, match.prefix)

\* prefixMatch built a condition and the store evaluated it on a name.
RangeEvaluated == match.stage = "matched" /\ match.err = "nil"

\* C25: in both dialects the condition prefixMatch builds holds of a name
\* exactly when the name starts with the prefix; prefixIncrement returns the
\* least byte string that is greater than the prefix and does not start with
\* it, and is not ok exactly when there is none.
C25_RangeIsPrefix ==
    /\ RangeEvaluated => (match.holds <=> HasPrefix(match.name, match.prefix))
    /\ (match.stage = "matched" /\ impl \in {"Postgres", "Cockroach"}) => match.err = "nil"
    /\ Incremented =>
        /\ match.ok <=> HasBound(match.prefix)
        /\ match.ok =>
            /\ LexLess(match.prefix, match.incremented)
            /\ ~HasPrefix(match.incremented, match.prefix)
            /\ \A s \in ByteStrings :
                (LexLess(match.prefix, s) /\ ~HasPrefix(s, match.prefix))
                    => ~LexLess(s, match.incremented)
        /\ ~match.ok =>
            \A s \in ByteStrings : LexLess(match.prefix, s) => HasPrefix(s, match.prefix)

\* The condition was evaluated for a prefix that ends in 0xff on a name that
\* is the incremented prefix itself, and did not hold.
C25_Witness ==
    /\ RangeEvaluated
    /\ impl = "Cockroach"
    /\ match.ok
    /\ Len(match.incremented) < Len(match.prefix)
    /\ match.name = match.incremented
    /\ ~match.holds

\* The condition without an upper end held of a longer name.
C25_OpenWitness ==
    /\ RangeEvaluated
    /\ ~match.ok
    /\ match.prefix # <<>>
    /\ Len(match.name) > Len(match.prefix)
    /\ match.holds

\* ---------------------------------------------------------------------------
\* The pages of GetBucketTotals
\* ---------------------------------------------------------------------------

\* The last call was GetBucketTotals.
TotalsCalled == usage.op = "GetBucketTotals"

\* The names of the buckets of the call's project that start with the
\* search prefix of the call.
NamesWithPrefix ==
    { b.name : b \in { x \in buckets : /\ x.project_id = usage.projectID
                                        /\ HasPrefix(x.name, usage.cursor.Search) } }

\* The reader started at page 1 and was given the last page.
ListedToTheEnd ==
    /\ TotalsCalled
    /\ usage.result.err = "nil"
    /\ listing.first = 1
    /\ usage.result.CurrentPage = usage.result.PageCount

\* C26: the pages 1..PageCount of GetBucketTotals, read one after the other
\* with no write in between, list exactly the buckets of the project whose
\* name starts with the search prefix, each once and in ascending order of
\* the names, and every page gives their number as TotalCount.
C26_PagesListPrefix ==
    /\ (TotalsCalled /\ usage.result.err = "nil") =>
            usage.result.TotalCount = Cardinality(NamesWithPrefix)
    /\ ListedToTheEnd =>
        /\ { listing.names[k] : k \in DOMAIN listing.names } = NamesWithPrefix
        /\ \A i, j \in DOMAIN listing.names :
            i < j => LexLess(listing.names[i], listing.names[j])

\* A search for al was read in two pages of one bucket and listed album and
\* alpha of the project, which has other buckets, next to another project
\* with a bucket alpha.
C26_Witness ==
    /\ ListedToTheEnd
    /\ buckets = ListedBuckets
    /\ usage.projectID = "p1"
    /\ usage.cursor = [Search |-> <<97, 108>>, Limit |-> 1, Page |-> 2]
    /\ listing.names = <<BucketAlbum, BucketAlpha>>

\* A search for alp listed alpha alone.
C26_AlpWitness ==
    /\ ListedToTheEnd
    /\ buckets = ListedBuckets
    /\ usage.projectID = "p1"
    /\ usage.cursor.Search = <<97, 108, 112>>
    /\ listing.names = <<BucketAlpha>>

\* C27: GetBucketTotals called with page number 0 returns an error and no
\* page, whatever the limit, the search prefix and the buckets of the store.
C27_PageZeroFails ==
    (TotalsCalled /\ usage.cursor.Page = 0) =>
        /\ DOMAIN usage.result = {"err"}
        /\ usage.result.err # "nil"
        /\ listing = NoListing

\* Page 0 was asked for with a search prefix that no bucket of the project
\* starts with.
C27_Witness ==
    /\ TotalsCalled
    /\ usage.cursor.Page = 0
    /\ usage.cursor.Limit > 0
    /\ impl = "Postgres"
    /\ buckets = ListedBuckets
    /\ NamesWithPrefix = {}
    /\ usage.result.err = "page can not be 0"

\* The least number of pages of the given size that hold a number of rows.
CeilDiv(total, size) ==
    CHOOSE q \in 0..total : q * size >= total /\ (q = 0 \/ (q - 1) * size < total)

\* The limit of the call, at most the cap.
PageSize ==
    IF usage.cursor.Limit < MaxPageLimit THEN usage.cursor.Limit ELSE MaxPageLimit

\* The call asked for a page after the last page of the matching buckets.
BeyondLastPage ==
    /\ TotalsCalled
    /\ PageSize >= 1
    /\ usage.cursor.Page > CeilDiv(Cardinality(NamesWithPrefix), PageSize)

\* C28: GetBucketTotals returns an error whenever the page asked for is
\* greater than ceil(matching buckets / limit), also when no bucket matches.
C28_BeyondLastPageFails ==
    BeyondLastPage => usage.result.err # "nil"

\* C28, amended: when at least one bucket matches and the limit is at least
\* 1, GetBucketTotals returns an error and no page for every page number
\* greater than ceil(matching buckets / limit); when no bucket matches, it
\* returns for every page number from 1 on an empty page and no error.
C28_BeyondLastPageOfMatches ==
    /\ (BeyondLastPage /\ NamesWithPrefix # {}) =>
            usage.result.err # "nil" /\ DOMAIN usage.result = {"err"}
    /\ (TotalsCalled /\ NamesWithPrefix = {} /\ usage.cursor.Page >= 1
            /\ impl \in {"Postgres", "Cockroach"}) =>
            /\ usage.result.err = "nil"
            /\ usage.result.TotalCount = 0
            /\ usage.result.BucketUsages = <<>>

\* The page right after the last full page of four matching buckets was
\* asked for and refused.
C28_Witness ==
    /\ BeyondLastPage
    /\ Cardinality(NamesWithPrefix) = 4
    /\ PageSize = 2
    /\ usage.cursor.Page = 3
    /\ usage.result.err = "page is out of range"

\* Page 2 of a search that matches nothing was asked for and an empty page
\* was returned.
C28_EmptyWitness ==
    /\ BeyondLastPage
    /\ NamesWithPrefix = {}
    /\ usage.cursor.Page = 2
    /\ usage.result.err = "nil"

\* C29: a page GetBucketTotals returns has as Limit the limit asked for, or
\* 50 when more was asked for, holds at most that many entries, and has as
\* Offset that limit times the number of pages before the page asked for.
C29_LimitCapped ==
    (TotalsCalled /\ usage.result.err = "nil") =>
        /\ usage.result.Limit = PageSize
        /\ Len(usage.result.BucketUsages) <= PageSize
        /\ usage.result.Offset = (usage.cursor.Page - 1) * PageSize

\* A page was returned for a limit above the cap.
C29_Witness ==
    /\ TotalsCalled
    /\ usage.result.err = "nil"
    /\ usage.cursor.Limit > MaxPageLimit
    /\ usage.result.Limit = MaxPageLimit
    /\ Len(usage.result.BucketUsages) = 4

\* The second page of a limit of 2 was returned with two entries.
C29_SecondPageWitness ==
    /\ TotalsCalled
    /\ usage.result.err = "nil"
    /\ usage.cursor.Limit = 2 /\ usage.cursor.Page = 2
    /\ usage.result.Offset = 2
    /\ Len(usage.result.BucketUsages) = 2

\* C30: a page GetBucketTotals returns when at least one bucket matches has
\* PageCount = ceil(TotalCount / Limit) and as CurrentPage the page asked
\* for, which is at least 1 and at most PageCount.
C30_PageCountIsCeiling ==
    (TotalsCalled /\ usage.result.err = "nil" /\ NamesWithPrefix # {}) =>
        /\ usage.result.PageCount = CeilDiv(usage.result.TotalCount, usage.result.Limit)
        /\ usage.result.CurrentPage = usage.cursor.Page
        /\ 1 <= usage.result.CurrentPage
        /\ usage.result.CurrentPage <= usage.result.PageCount

\* The last page of three matching buckets in pages of two was returned.
C30_Witness ==
    /\ TotalsCalled
    /\ usage.result.err = "nil"
    /\ usage.result.TotalCount = 3
    /\ usage.result.Limit = 2
    /\ usage.result.PageCount = 2
    /\ usage.result.CurrentPage = 2
    /\ Len(usage.result.BucketUsages) = 1


(***************************************************************************)
(* The readers of bandwidth over a store whose query may fail              *)
(***************************************************************************)

\* projectaccounting.go:29.
allocatedExpirationInDays == 2

\* The days of the month of a call: day 1 is its first day, day 0 the last day
\* of the month before, LastDay + 1 the first day of the month after.
LastDay == MaxTime + 1

\* The rows project_bandwidth_daily_rollups may hold.
DailyRows ==
    { [ project_id |-> row[1], interval_day |-> row[2],
        egress_allocated |-> row[3], egress_settled |-> row[4] ] :
      row \in { <<"p1", 0, 1000, 900>>, <<"p1", 1, 10, 1>>, <<"p1", 2, 20, 2>>,
                <<"p1", 3, 40, 4>>, <<"p1", 4, 80, 8>>, <<"p2", 1, 160, 16>> } }

\* What makes the statement of a call fail, "nil" when it does not fail.
QueryOutcomes == {"nil"} \cup FailureCauses

\* database/sql, Row.Scan into a *int64 (<<>> is nil, <<v>> points to v): a
\* failed query returns its error and leaves the destination as it was
\* declared, nil; SUM over no row is NULL, which is scanned as nil.
ScanSum(rows, column, failure) ==
    IF failure # "nil" THEN [sum |-> <<>>, err |-> failure]
    ELSE IF rows = {} THEN [sum |-> <<>>, err |-> "nil"]
    ELSE [sum |-> <<SumColumn(rows, column)>>, err |-> "nil"]

\* projectaccounting.go:148-152 and 180-184: 0 and no error when the scan
\* returned sql.ErrNoRows or left the pointer nil, else the value and the
\* error of the scan.
ZeroIfNil(scan) ==
    IF scan.err = "sql.ErrNoRows" \/ scan.sum = <<>>
    THEN [value |-> 0, err |-> "nil"]
    ELSE [value |-> scan.sum[1], err |-> scan.err]

\* projectaccounting.go:143-153: SUM(allocated) over the GET rollups of the
\* project from `from` on.
AllocatedBandwidthTotal(R, projectID, from, failure) ==
    LET rows == { r \in R : /\ r.project_id = projectID
                            /\ r.action = "GET"
                            /\ r.interval_start >= from }
    IN ZeroIfNil(ScanSum(rows, "allocated", failure))

\* projectaccounting.go:156-185, with startOfMonth day 1 and periodEnd day
\* LastDay + 1: the sum over the days of the month of the settled egress of
\* the days before expiredSince and of the allocated egress of the others.
ProjectBandwidth(D, projectID, day, failure) ==
    LET expiredSince == IF day < allocatedExpirationInDays
                        THEN 1 ELSE day - allocatedExpirationInDays
        egress == { [ interval_day |-> r.interval_day,
                      amount |-> IF r.interval_day < expiredSince
                                 THEN r.egress_settled ELSE r.egress_allocated ] :
                    r \in { x \in D : /\ x.project_id = projectID
                                      /\ x.interval_day >= 1
                                      /\ x.interval_day < LastDay + 1 } }
    IN ZeroIfNil(ScanSum(egress, "amount", failure))

BandwidthInit ==
    /\ impl \in Dialects
    /\ live \in { SetToBag(BandwidthRows), SetToBag(BandwidthRows \cup MoreBandwidthRows) }
    /\ archive = SetToBag({ArchivedRow})
    /\ written = live (+) archive
    /\ ar = IdleArchiver
    /\ prev = NoPrev
    /\ tallies = {}
    /\ buckets = BucketMetainfos
    /\ usage = NoUsage
    /\ listing = NoListing
    /\ match = NoMatch
    /\ daily \in SUBSET DailyRows
    /\ SegIdle
    /\ SchemaIdle

\* projectaccounting.go:143-153: GetAllocatedBandwidthTotal, one SELECT that
\* succeeds or fails.
GetAllocatedBandwidthTotal ==
    /\ \E projectID \in Projects, from \in SinceTimes, failure \in QueryOutcomes :
        usage' = [ op |-> "GetAllocatedBandwidthTotal", projectID |-> projectID,
                   from |-> from, query |-> failure,
                   result |-> AllocatedBandwidthTotal(BagToSet(live), projectID,
                                                      from, failure) ]
    /\ UNCHANGED <<tallies, buckets, listing, match, daily, archVars, segVars, schemaVars>>

\* projectaccounting.go:156-185: GetProjectBandwidth, one SELECT that succeeds
\* or fails.
GetProjectBandwidth ==
    /\ \E projectID \in Projects, day \in 1 .. LastDay, failure \in QueryOutcomes :
        usage' = [ op |-> "GetProjectBandwidth", projectID |-> projectID,
                   day |-> day, query |-> failure,
                   result |-> ProjectBandwidth(daily, projectID, day, failure) ]
    /\ UNCHANGED <<tallies, buckets, listing, match, daily, archVars, segVars, schemaVars>>

BandwidthNext ==
    \/ GetAllocatedBandwidthTotal
    \/ GetProjectBandwidth

BandwidthSpec == BandwidthInit /\ [][BandwidthNext]_vars

\* ---------------------------------------------------------------------------
\* A failed query is reported
\* ---------------------------------------------------------------------------

\* The last call was one of the two readers of bandwidth.
BandwidthRead == usage.op \in {"GetAllocatedBandwidthTotal", "GetProjectBandwidth"}

\* C31: a reader of bandwidth whose query failed returns a non-nil error,
\* never a zero with no error.
C31_FailedQueryIsError ==
    BandwidthRead /\ usage.query # "nil" => usage.result.err # "nil"


\* ---------------------------------------------------------------------------
\* What prefixIncrement returns
\* ---------------------------------------------------------------------------

\* The positions of the bytes of p that are not 0xff.
NotMaxByte(p) == { i \in DOMAIN p : p[i] # MaxByte }

\* The greatest of a set of positions.
LastOf(S) == CHOOSE i \in S : \A j \in S : j <= i

\* C32: prefixIncrement returns a result exactly when the prefix has a byte
\* that is not 0xff; the result is the prefix cut after its last such byte,
\* that byte raised by one and still a byte; the caller's slice is as it was.
C32_CutAndRaiseLastByte ==
    Incremented =>
        /\ match.ok <=> NotMaxByte(match.prefix) # {}
        /\ ~match.ok => match.incremented = <<>>
        /\ match.ok =>
            /\ Len(match.incremented) = LastOf(NotMaxByte(match.prefix))
            /\ \A k \in DOMAIN match.incremented :
                /\ match.incremented[k] \in 0 .. MaxByte
                /\ match.incremented[k] =
                     match.prefix[k] + (IF k = Len(match.incremented) THEN 1 ELSE 0)
        /\ match.origPrefix = match.prefix

\* "\x01\xfe\xff" was incremented to "\x01\xff".
C32_Witness ==
    /\ Incremented
    /\ match.prefix = <<1, MaxByte - 1, MaxByte>>
    /\ match.incremented = <<1, MaxByte>>
    /\ match.ok


\* ---------------------------------------------------------------------------
\* The rounds of the batched strategy
\* ---------------------------------------------------------------------------

\* This step is a round of the batched strategy that the store carried out:
\* the archiver was in the loop of an action and no writer made the step.
BatchRound ==
    /\ impl = "Cockroach"
    /\ ar.pc = "batch"
    /\ ar'.rounds = ar.rounds + 1
    /\ ar'.err # "Error"

\* C33: a round of the batched strategy moves at most batchSize rows, all of
\* the action of the loop and none later than `before`, out of the live table
\* and into the archive in the same step; the action of the loop is no more
\* among the actions still to do.
C33_RoundIsOneBatchOfOneAction ==
    [][ BatchRound =>
          LET moved == live (-) live'
          IN /\ live' (+) moved = live
             /\ archive' = InsertArchived(archive, BagToSet(moved))
             /\ BagCardinality(moved) <= ar.batchSize
             /\ \A r \in BagToSet(moved) :
                  r.action = ar.action /\ r.interval_start <= ar.before
             /\ ar.action \notin ar.todo
             /\ ar'.action = ar.action ]_vars

\* A full batch of one action was moved while rows of the other action wait.
C33_Witness ==
    /\ impl = "Cockroach"
    /\ ar.pc = "batch"
    /\ ar.rounds = 1
    /\ ar.inner = MaxBatch
    /\ ar.todo # {}
    /\ \E r \in RollupsBefore(live, ar.before) : r.action \in ar.todo

\* The rows the loop of the current action had to move when the call began.
Eligible == Cardinality(RollupsBeforeByAction(ar.startLive, ar.action, ar.before))

\* The call is in the batched strategy, in or after the loop of an action,
\* and no writer inserted a row since it began.
BatchedAlone ==
    /\ impl = "Cockroach"
    /\ ar.action # "none"
    /\ ar.inserted = EmptyBag

\* C34: with no writer, the loop of an action with n eligible rows has issued
\* only full rounds while it runs, at most n \div batchSize of them, and has
\* issued n \div batchSize + 1 rounds when it returns without an error: it ends
\* with the first round that moves fewer than batchSize rows.
C34_RoundsOfAnAction ==
    BatchedAlone =>
        /\ ar.batchSize > 0
        /\ ar.pc = "batch" =>
            /\ ar.inner = ar.rounds * ar.batchSize
            /\ ar.rounds <= Eligible \div ar.batchSize
        /\ ar.pc = "actions" \/ (ar.pc = "done" /\ ar.err = "nil") =>
            ar.rounds = (Eligible \div ar.batchSize) + 1
        /\ ar.pc = "done" /\ ar.err = "Error" =>
            ar.rounds <= (Eligible \div ar.batchSize) + 1

\* The loop of an action with MaxBatch rows and a batch size of MaxBatch has
\* returned after two rounds, the second one empty.
C34_Witness ==
    /\ BatchedAlone
    /\ ar.pc = "actions"
    /\ ar.batchSize = MaxBatch
    /\ Eligible = MaxBatch
    /\ ar.rounds = 2

\* The loop of an action with no eligible row has returned after one round.
C34_EmptyWitness ==
    /\ BatchedAlone
    /\ ar.pc = "actions"
    /\ Eligible = 0
    /\ ar.rounds = 1


(***************************************************************************)
(* Callers of UpdateSegmentPieces that re-read and call again              *)
(***************************************************************************)

\* The callers that contend on one segment, each with one update to make.
RetryCallers == Callers \cup {"w3"}

\* The segment they contend on.
ContendedKey == <<"s1", 0>>

\* A caller before its first read. retried tells that an earlier call of the
\* caller returned ErrValueChanged, overtaken that another caller's call
\* succeeded after the caller's last read (history).
NewCaller == [retried |-> FALSE, overtaken |-> FALSE] @@ IdleCall

RetryInit ==
    /\ \E column \in ColumnValues :
        segments = [k \in ExistingKeys |-> IF k = ContendedKey THEN column ELSE {}]
    /\ initial = segments
    /\ call = [c \in RetryCallers |-> NewCaller]
    /\ ArchIdle
    /\ UsageIdle
    /\ SchemaIdle

\* The caller reads the piece set of the segment, before its first call and
\* again after a call that returned ErrValueChanged, and prepares a call with
\* what it read as OldPieces.
ReadPieces(c) ==
    /\ \/ call[c].pc = "idle"
       \/ call[c].pc = "done" /\ call[c].err = "ErrValueChanged"
    /\ \E old \in PiecesInputs, new \in PiecesInputs :
        /\ EncodePieces(old) = segments[ContendedKey]
        /\ call' = [call EXCEPT ![c] =
                [ NewCaller EXCEPT
                    !.pc = "ready",
                    !.opts = [ StreamID |-> ContendedKey[1], Position |-> ContendedKey[2],
                               OldPieces |-> old, NewPieces |-> new ],
                    !.retried = call[c].pc = "done" ]]
        /\ ValidateOpts(call'[c].opts) = "none"
    /\ UNCHANGED <<segments, initial>>
    /\ UNCHANGED <<archVars, usageVars, schemaVars>>

\* update.go:27-48: the call with the arguments the caller prepared; its one
\* statement is executed by the store.
CallWithRead(c) ==
    /\ call[c].pc = "ready"
    /\ segments' = UpdateStatement(segments, call[c].opts)
    /\ call' = [ d \in RetryCallers |->
                 IF d = c
                 THEN [ call[c] EXCEPT !.pc = "check",
                                       !.before = Returning(segments, call[c].opts),
                                       !.pieces = Returning(segments', call[c].opts),
                                       !.queries = @ + 1 ]
                 ELSE IF /\ call[d].pc = "ready"
                         /\ CheckReturned(call[c].opts,
                                          Returning(segments', call[c].opts)) = "nil"
                 THEN [call[d] EXCEPT !.overtaken = TRUE]
                 ELSE call[d] ]
    /\ UNCHANGED initial
    /\ UNCHANGED <<archVars, usageVars, schemaVars>>

RetryNext ==
    \E c \in RetryCallers :
        \/ ReadPieces(c)
        \/ CallWithRead(c)
        \/ ReturnChecked(c)

\* The callers run on their own: none of them stops before its call returned.
RetrySpec ==
    /\ RetryInit
    /\ [][RetryNext]_vars
    /\ \A c \in RetryCallers :
        WF_vars(ReadPieces(c) \/ CallWithRead(c) \/ ReturnChecked(c))

\* ---------------------------------------------------------------------------
\* No livelock among callers that retry
\* ---------------------------------------------------------------------------

\* The last call of c returned without an error.
Succeeded(c) == call[c].pc = "done" /\ call[c].err = "nil"

\* The last call of c returned ErrValueChanged.
Conflicted(c) == call[c].pc = "done" /\ call[c].err = "ErrValueChanged"

\* A call issues at most one statement; a call whose statement found the set
\* the caller had read succeeds, and a call returns ErrValueChanged only when
\* the call of another caller succeeded since the caller's read.
OneStatementAndProgress ==
    \A c \in RetryCallers :
        /\ call[c].queries <= 1
        /\ Done(c) /\ Matched(c) => Succeeded(c)
        /\ Conflicted(c) => call[c].overtaken

\* C35: a call issues one statement at most; among callers that re-read and
\* call again after ErrValueChanged, a call only fails when another caller's
\* call succeeded since its read, and every caller's call succeeds in the end.
C35_RetryingCallersSucceed ==
    /\ []OneStatementAndProgress
    /\ \A c \in RetryCallers : <>Succeeded(c)

\* A caller whose first call returned ErrValueChanged has read again and its
\* second call succeeded.
C35_Witness ==
    \E c \in RetryCallers : Succeeded(c) /\ call[c].retried /\ call[c].queries = 1


(***************************************************************************)
(* GetProjectTotal and GetBucketUsageRollups called with the same arguments *)
(***************************************************************************)

CompareInit ==
    /\ impl = "Postgres"
    /\ live = SetToBag(BandwidthRows)
    /\ archive = SetToBag({ArchivedRow})
    /\ written = live (+) archive
    /\ ar = IdleArchiver
    /\ prev = NoPrev
    /\ tallies \in SUBSET TallyRows
    /\ buckets = BucketMetainfos
    /\ usage = NoUsage
    /\ listing = NoListing
    /\ match = NoMatch
    /\ daily = {}
    /\ SegIdle
    /\ SchemaIdle

\* projectaccounting.go:268-347: GetProjectTotal for a window whose since is
\* a time in some location.
ReadProjectTotal ==
    /\ usage.op = "none"
    /\ \E projectID \in Projects, since \in SinceTimes, location \in Locations,
          before \in BeforeTimes :
        \E order \in Orders(getBucketsSinceAndBefore(
                        tallies, projectID, TruncatedSince(since, location), before)) :
            usage' = [ op |-> "GetProjectTotal", projectID |-> projectID,
                       since |-> since, location |-> location, before |-> before,
                       total |-> ProjectTotalIn(tallies, BagToSet(live), projectID,
                                                since, location, before, order),
                       rollups |-> <<>> ]
    /\ UNCHANGED <<tallies, buckets, listing, match, daily, archVars, segVars, schemaVars>>

\* projectaccounting.go:373-474: GetBucketUsageRollups with the arguments of
\* the GetProjectTotal before it.
ReadBucketUsageRollups ==
    /\ usage.op = "GetProjectTotal"
    /\ \E order \in Orders(getBucketsSinceAndBefore(
                        tallies, usage.projectID, timeTruncateDown(usage.since),
                        usage.before)) :
        usage' = [ usage EXCEPT
                    !.op = "GetBucketUsageRollups",
                    !.rollups = BucketUsageRollups(tallies, BagToSet(live),
                                    usage.projectID, usage.since, usage.before, order) ]
    /\ UNCHANGED <<tallies, buckets, listing, match, daily, archVars, segVars, schemaVars>>

CompareNext ==
    \/ ReadProjectTotal
    \/ ReadBucketUsageRollups
    \/ CreateStorageTally

CompareSpec == CompareInit /\ [][CompareNext]_vars

\* ---------------------------------------------------------------------------
\* The rollups of the buckets against the total of the project
\* ---------------------------------------------------------------------------

\* Both readers returned for the same arguments and the same store.
BothRead == usage.op = "GetBucketUsageRollups"

\* The buckets of the entries GetBucketUsageRollups returned.
RollupBuckets == { usage.rollups[k].BucketName : k \in DOMAIN usage.rollups }

\* The buckets GetProjectTotal summed over: those with a tally in its window.
TotalBuckets ==
    getBucketsSinceAndBefore(tallies, usage.projectID,
                             TruncatedSince(usage.since, usage.location), usage.before)

\* C36: the byte-hours and the object-hours of the entries of
\* GetBucketUsageRollups add up to the Storage and the ObjectCount of
\* GetProjectTotal (the former in GB), and the buckets of the entries are the
\* buckets GetProjectTotal summed over.
C36_RollupsSumToProjectTotal ==
    BothRead =>
        /\ SumOf([k \in DOMAIN usage.rollups |-> usage.rollups[k].TotalStoredData.num])
             = usage.total.Storage.num
        /\ SumOf([k \in DOMAIN usage.rollups |-> usage.rollups[k].ObjectCount.num])
             = usage.total.ObjectCount.num
        /\ RollupBuckets = TotalBuckets

\* The same for a since in UTC.
RollupsSumToProjectTotalInUTC ==
    BothRead /\ usage.location = 0 => C36_RollupsSumToProjectTotal


(***************************************************************************)
(* The readers of one tally row: total_bytes or inline + remote            *)
(***************************************************************************)

\* The one tally of bucket a the readers are compared on. Its byte and
\* segment columns are signed (int64) and CreateStorageTally and SaveTallies
\* store what they are handed: a total is negative, 0 or positive, a column
\* the total replaced is 0 or positive.
StoredTallies ==
    LET ColumnCounts == {-1, 0, 7}
        PartCounts == {0, 2}
    IN { [ TallyRow("p1", BucketA, 60, total, inline, remote, 1) EXCEPT
                !.total_segments_count = totalSegments,
                !.inline_segments_count = inlineSegments,
                !.remote_segments_count = remoteSegments ] :
            total \in ColumnCounts, inline \in PartCounts, remote \in PartCounts,
            totalSegments \in ColumnCounts, inlineSegments \in PartCounts,
            remoteSegments \in PartCounts }

\* projectaccounting.go:84-109, the accounting.BucketTally made of one row.
BucketTally(dbxTally) ==
    [ ProjectID |-> dbxTally.project_id, BucketName |-> dbxTally.bucket_name,
      ObjectCount |-> dbxTally.object_count,
      TotalSegments |-> IF dbxTally.total_segments_count = 0
                        THEN dbxTally.inline_segments_count
                             + dbxTally.remote_segments_count
                        ELSE dbxTally.total_segments_count,
      TotalBytes |-> IF dbxTally.total_bytes = 0
                     THEN dbxTally.inline + dbxTally.remote
                     ELSE dbxTally.total_bytes ]

\* projectaccounting.go:76-113, GetTallies: one BucketTally per row of the
\* table.
Tallies(T) == [ r \in T |-> BucketTally(r) ]

\* The readers of bucket_storage_tallies.
TallyReaders ==
    {"GetTallies", "GetProjectTotal", "GetBucketUsageRollups", "GetBucketTotals"}

\* No reader has read the row.
NoCounts ==
    [ bytes |-> [reader \in TallyReaders |-> <<>>],
      segments |-> [reader \in TallyReaders |-> <<>>] ]

FallbackInit ==
    /\ impl = "Postgres"
    /\ live = SetToBag(BandwidthRows)
    /\ archive = SetToBag({ArchivedRow})
    /\ written = live (+) archive
    /\ ar = IdleArchiver
    /\ prev = NoPrev
    /\ \E row \in StoredTallies : tallies = {row}
    /\ buckets = BucketMetainfos
    /\ usage = NoCounts
    /\ listing = NoListing
    /\ match = NoMatch
    /\ daily = {}
    /\ SegIdle
    /\ SchemaIdle

\* projectaccounting.go:76-113: GetTallies converts the row.
TalliesRead ==
    /\ usage.bytes["GetTallies"] = <<>>
    /\ \E row \in tallies :
        usage' = [ usage EXCEPT
                    !.bytes["GetTallies"] = <<Tallies(tallies)[row].TotalBytes>>,
                    !.segments["GetTallies"] = <<Tallies(tallies)[row].TotalSegments>> ]
    /\ UNCHANGED <<tallies, buckets, listing, match, daily, archVars, segVars, schemaVars>>

\* projectaccounting.go:296-324: GetProjectTotal scans the row into the slice
\* of its bucket.
ProjectTotalScan ==
    /\ usage.bytes["GetProjectTotal"] = <<>>
    /\ \E row \in tallies :
        usage' = [ usage EXCEPT
                    !.bytes["GetProjectTotal"] =
                        <<Bytes(storageTallies(tallies, row.project_id, row.bucket_name,
                                               0, row.interval_start)[1])>> ]
    /\ UNCHANGED <<tallies, buckets, listing, match, daily, archVars, segVars, schemaVars>>

\* projectaccounting.go:433-461: GetBucketUsageRollups takes the bytes and
\* the segments of the row as the terms of its sums.
BucketUsageRollupsTerm ==
    /\ usage.bytes["GetBucketUsageRollups"] = <<>>
    /\ \E row \in tallies :
        usage' = [ usage EXCEPT
                    !.bytes["GetBucketUsageRollups"] =
                        <<StoredBytes(dbxStorageTallies(tallies, row.project_id,
                                            row.bucket_name, 0, row.interval_start)[1])>>,
                    !.segments["GetBucketUsageRollups"] =
                        <<StoredSegments(dbxStorageTallies(tallies, row.project_id,
                                            row.bucket_name, 0, row.interval_start)[1])>> ]
    /\ UNCHANGED <<tallies, buckets, listing, match, daily, archVars, segVars, schemaVars>>

\* projectaccounting.go:645-660: GetBucketTotals takes the bytes of the row
\* as the most recent tally of its bucket.
BucketTotalsTally ==
    /\ usage.bytes["GetBucketTotals"] = <<>>
    /\ \E row \in tallies :
        usage' = [ usage EXCEPT
                    !.bytes["GetBucketTotals"] =
                        <<Bytes(LatestTally(tallies, row.project_id, row.bucket_name,
                                            0, row.interval_start))>> ]
    /\ UNCHANGED <<tallies, buckets, listing, match, daily, archVars, segVars, schemaVars>>

FallbackNext ==
    \/ TalliesRead
    \/ ProjectTotalScan
    \/ BucketUsageRollupsTerm
    \/ BucketTotalsTally

FallbackSpec == FallbackInit /\ [][FallbackNext]_vars

\* The segments a tally stands for: total_segments_count, or the inline and
\* remote segment counters where it was never filled.
EffectiveSegments(x) ==
    IF x.total_segments_count # 0
    THEN x.total_segments_count
    ELSE x.inline_segments_count + x.remote_segments_count

\* The readers that took the bytes of the row, and those that took its
\* segments.
BytesReadBy == { reader \in TallyReaders : usage.bytes[reader] # <<>> }
SegmentsReadBy == { reader \in TallyReaders : usage.segments[reader] # <<>> }

\* C37: every reader of a tally takes total_bytes as the bytes of the row
\* when it is not 0 and inline + remote when it is 0, so the four readers
\* take the same bytes from the same row; GetTallies and GetBucketUsageRollups
\* take the segments by the same rule from total_segments_count and the
\* inline and remote segment counters.
C37_ReadersTakeTheSameCount ==
    \A row \in tallies :
        /\ \A reader \in BytesReadBy :
            usage.bytes[reader] = <<EffectiveBytes(row)>>
        /\ \A reader \in SegmentsReadBy :
            usage.segments[reader] = <<EffectiveSegments(row)>>

\* On a row whose total_bytes and total_segments_count are not negative the
\* four readers do take the same counts.
ReadersAgreeOnCountsFromZero ==
    \A row \in tallies :
        row.total_bytes >= 0 /\ row.total_segments_count >= 0
            => C37_ReadersTakeTheSameCount


(***************************************************************************)
(* CreateSchema: the statement is repeated on a constraint error           *)
(***************************************************************************)

\* schema.go:72, the loop runs while try < 5.
Tries == 5

\* The sessions that call CreateSchema on one database.
Sessions == {"t1", "t2"}

\* The names of the schemas they create.
SchemaNames == {"satellite", "storagenode"}

\* What db.Exec returns for the statement: nil, the duplicate-key error of
\* a creation that raced with another one, or an error of another kind.
ExecErrors == {"nil", "duplicate key value violates unique constraint",
               "permission denied"}

\* pgutil.IsConstraintError: the error is a constraint violation.
IsConstraintError(err) == err = "duplicate key value violates unique constraint"

\* A session that did not call CreateSchema.
IdleCreate == [pc |-> "idle", schema |-> "none", try |-> 0, err |-> "nil", attempts |-> <<>>]

\* The loop goes on after every error.
AfterExec_RetryAnyError(try, err) ==
    IF err # "nil"
    THEN [pc |-> IF try + 1 < Tries THEN "loop" ELSE "returned", try |-> try + 1]
    ELSE [pc |-> "returned", try |-> try]

\* schema.go:79-85, what follows the statement of one pass: continue, with
\* try++ and the test try < 5, on a constraint error, return err otherwise;
\* the loop left by its test returns err too.
AfterExec(try, err) ==
    IF IsConstraintError(err)
    THEN [pc |-> IF try + 1 < Tries THEN "loop" ELSE "returned", try |-> try + 1]
    ELSE [pc |-> "returned", try |-> try]

SchemaInit ==
    /\ schemas \in SUBSET SchemaNames
    /\ create = [t \in Sessions |-> IdleCreate]
    /\ SegIdle
    /\ ArchIdle
    /\ UsageIdle

\* schema.go:71-72: CreateSchema is called and enters its loop with try = 0.
CallCreateSchema(t) ==
    /\ create[t].pc \in {"idle", "returned"}
    /\ \E schema \in SchemaNames :
        create' = [create EXCEPT ![t] = [IdleCreate EXCEPT !.pc = "loop", !.schema = schema]]
    /\ UNCHANGED <<schemas, segVars, archVars, usageVars>>

\* schema.go:73-82: one pass of the loop. The statement is executed; when it
\* succeeds the schema exists afterwards.
ExecCreateSchema(t) ==
    /\ create[t].pc = "loop"
    /\ \E err \in ExecErrors :
        /\ create' = [create EXCEPT ![t] =
                        [ pc |-> AfterExec(create[t].try, err).pc,
                          schema |-> create[t].schema,
                          try |-> AfterExec(create[t].try, err).try,
                          err |-> err,
                          attempts |-> Append(create[t].attempts, err) ]]
        /\ schemas' = IF err = "nil" THEN schemas \cup {create[t].schema} ELSE schemas
    /\ UNCHANGED <<segVars, archVars, usageVars>>

\* schema.go:89-92: DropSchema drops a schema that exists.
DropSchema ==
    /\ \E schema \in schemas : schemas' = schemas \ {schema}
    /\ UNCHANGED <<create, segVars, archVars, usageVars>>

SchemaNext ==
    \/ \E t \in Sessions : CallCreateSchema(t)
    \/ \E t \in Sessions : ExecCreateSchema(t)
    \/ DropSchema

\* A call that entered its loop goes on: db.Exec returns.
SchemaSpec ==
    /\ SchemaInit
    /\ [][SchemaNext]_vars
    /\ \A t \in Sessions : WF_vars(ExecCreateSchema(t))

\* The statements of the call of t so far: at most five, each but the last
\* one failed with a constraint error; the call is in its loop only with
\* fewer than five, all of them failed so; it has returned only with the
\* error of its last statement, which is a constraint error only if it is
\* the fifth.
StatementsOfCall(t) ==
    LET attempts == create[t].attempts
    IN /\ Len(attempts) <= Tries
       /\ \A i \in 1..(Len(attempts) - 1) : IsConstraintError(attempts[i])
       /\ create[t].pc = "loop" =>
            /\ Len(attempts) < Tries
            /\ \A i \in 1..Len(attempts) : IsConstraintError(attempts[i])
       /\ create[t].pc = "returned" =>
            /\ attempts # <<>>
            /\ create[t].err = attempts[Len(attempts)]
            /\ IsConstraintError(create[t].err) => Len(attempts) = Tries

\* C38: CreateSchema executes the statement at most five times, again only
\* after a constraint error, returns the outcome of the first statement that
\* succeeds or fails otherwise, returns the constraint error after the
\* fifth, and always returns.
C38_AtMostFiveStatements ==
    /\ [](\A t \in Sessions : StatementsOfCall(t))
    /\ \A t \in Sessions : (create[t].pc = "loop") ~> (create[t].pc = "returned")

\* A call has returned the constraint error of its fifth statement, and
\* another one nil after a repeated statement.
C38_Witness ==
    /\ create["t1"].pc = "returned"
    /\ Len(create["t1"].attempts) = Tries
    /\ IsConstraintError(create["t1"].err)
    /\ create["t2"].pc = "returned"
    /\ Len(create["t2"].attempts) = 2
    /\ create["t2"].err = "nil"


(***************************************************************************)
(* GetBucketTotals with a limit of 0                                       *)
(***************************************************************************)

\* GetBucketTotals was called for a page from 1 on.
TotalsCalledForPage ==
    /\ usage.op = "GetBucketTotals"
    /\ usage.cursor.Page >= 1

\* C39: for every cursor with a page from 1 on and every limit, 0 included,
\* GetBucketTotals returns a page or an error value: it does not stop on a
\* division by zero when it computes the page count from the page size.
C39_ReturnsForEveryLimit ==
    TotalsCalledForPage => usage.result.err # "panic: integer divide by zero"

\* With a limit of 1 or more the call does return a page or an error value.
ReturnsForEveryLimitFromOne ==
    TotalsCalledForPage /\ usage.cursor.Limit >= 1 => C39_ReturnsForEveryLimit
====
